---------------------------- MODULE Spec2Model ----------------------------
(***************************************************************************)
(* Form Layout & Dependency Engine (frappe.ui.form.Layout, Section and     *)
(* Column of src/unnamed/part_001).                                         *)
(*                                                                         *)
(* Nine specifications share the definitions of this module:              *)
(*   Spec      the refresh engine: refresh(doc), the dependency step, the  *)
(*             section collapse step and the click on a section header,    *)
(*             over layouts rendered from bounded descriptor lists;        *)
(*   SpecBuild the tree builder: render over every descriptor list of      *)
(*             bounded length;                                             *)
(*   SpecTab   the tab navigator: handle_tab over bounded field lists and  *)
(*             sub-table rows with a fixed visibility snapshot;            *)
(*   SpecEval  the dependency evaluator: evaluate_depends_on_value over    *)
(*             every shape of expression, bounded documents and owners;    *)
(*   SpecPass  one refresh pass, step by step: the order in which controls *)
(*             are bound and refreshed and the steps of the pass run;      *)
(*   SpecEdit  refresh passes between which the owner removes depends_on   *)
(*             from descriptors;                                           *)
(*   SpecName  the fields of a doctype layout: get_doctype_fields, the     *)
(*             name field and its status;                                  *)
(*   SpecClick clicks on section heads between refresh passes;             *)
(*   SpecWalk  the forward tab pressed repeatedly in the focused field,    *)
(*             with weak fairness of the key press.                        *)
(***************************************************************************)
EXTENDS Integers, Sequences, FiniteSets, TLC

VARIABLES
    layout,     \* the Layout object (fields, fields_list, sections, ...) and
                \* the descriptor objects (dfs) its nodes share with this.fields
    doc,        \* this.doc, the document bound by the last refresh(doc)
    owner,      \* "frm": this.frm is set; "dialog": this.is_dialog or a web
                \* form, no frm; "none": neither
    hist,       \* history: what the last operation was and what it did
    tab         \* the tab navigator's state (SpecTab)

vars == <<layout, doc, owner, hist, tab>>

---------------------------------------------------------------------------
(* Bounds of the model.                                                    *)

MaxFields == 2      \* longest descriptor list of a layout under Spec
MaxDescs == 5       \* longest descriptor list rendered under SpecBuild
MaxTab == 3         \* longest top-level field list under SpecTab
MaxRows == 2        \* most rows of a sub-table under SpecTab
MaxAdd == 2         \* longest descriptor list handed to add_fields
MaxReplace == 2     \* most calls of replace_field on one layout

---------------------------------------------------------------------------
(* Values of a document.  JavaScript values are coded as strings: "null"   *)
(* is null/undefined, "" the empty string, "[]" and "[x]" an empty and a   *)
(* non-empty array, anything else a non-empty string.                      *)

\* the element of a singleton set; The({e(x) : x \in {v}}) evaluates v
\* once, as the code evaluates a local variable once
The(S) == CHOOSE x \in S : TRUE

Null == "null"

IsArray_never(v) == FALSE

IsArray(v) == v \in {"[]", "[x]"}

ArrayLength(v) == IF v = "[x]" THEN 1 ELSE 0

\* !!v: null, undefined, "", 0 and false are the falsy values
Truthy(v) == v \notin {Null, "undefined", "", "0", "false"}

DocKeys == {"status", "type", "a"}

DocValues(k) ==
    CASE k = "status" -> {"Open", "Closed"}
      [] k = "type" -> {"DocType", "Other"}
      [] OTHER -> {Null, "", "v"}

Docs == {d \in [DocKeys -> {"Open", "Closed", "DocType", "Other", Null, "", "v"}] :
            \A k \in DocKeys : d[k] \in DocValues(k)}

NoDoc == [k \in DocKeys |-> "undefined"]

\* doc[fieldname]: a fieldname the document does not hold reads undefined
DocGet(d, k) == IF k \in DOMAIN d THEN d[k] ELSE Null

---------------------------------------------------------------------------
(* Condition expressions (depends_on, mandatory_depends_on, ...).          *)
(*   absent     the property is not set on the descriptor                  *)
(*   boolean    a literal boolean, val is "true" or "false"                *)
(*   function   a callable predicate, here  doc => doc[key] == val         *)
(*   eval       the string "eval: doc.<key> == '<val>'"; sub says that     *)
(*              the text also mentions is_submittable                      *)
(*   eval_len   the string "eval: doc.<key>.length > 0", whose evaluation  *)
(*              throws a TypeError when doc.<key> is null                  *)
(*   fn         the string "fn:<key>"                                      *)
(*   fieldname  a plain fieldname string <key>                             *)

Absent == [kind |-> "absent", key |-> "", val |-> "", sub |-> FALSE]

EvalEq(k, v) == [kind |-> "eval", key |-> k, val |-> v, sub |-> FALSE]

EvalLen(k) == [kind |-> "eval_len", key |-> k, val |-> "", sub |-> FALSE]

Plain(k) == [kind |-> "fieldname", key |-> k, val |-> "", sub |-> FALSE]

Fn(k) == [kind |-> "fn", key |-> k, val |-> "", sub |-> FALSE]

Bool(b) == [kind |-> "boolean", key |-> "", val |-> b, sub |-> FALSE]

Function(k, v) == [kind |-> "function", key |-> k, val |-> v, sub |-> FALSE]

\* the text "eval:!parent"
EvalNoParent == [kind |-> "eval_noparent", key |-> "", val |-> "", sub |-> FALSE]

\* an eval: text that also mentions is_submittable
Submittable(e) == [e EXCEPT !.sub = TRUE]

IsSet(e) == e.kind # "absent" /\ ~(e.kind = "boolean" /\ e.val = "false")

\* the document keys an expression reads
ReadsOf(e) ==
    IF e.kind \in {"eval", "eval_len", "function", "fieldname"} THEN {e.key} ELSE {}

---------------------------------------------------------------------------
(* Field descriptors.                                                      *)

NoDF == [fieldname |-> "", fieldtype |-> "", label |-> FALSE,
         collapsible |-> FALSE, hidden |-> FALSE, reqd |-> FALSE,
         read_only |-> FALSE, hidden_due_to_dependency |-> FALSE,
         depends_on |-> Absent, mandatory_depends_on |-> Absent,
         read_only_depends_on |-> Absent, collapsible_depends_on |-> Absent]

Field(name) == [NoDF EXCEPT !.fieldname = name, !.fieldtype = "Data"]

SectionBreak(name) == [NoDF EXCEPT !.fieldname = name, !.fieldtype = "Section Break"]

\* the descriptors the layouts of Spec are made of
Catalog(name) ==
    CASE name = "a" -> [Field("a") EXCEPT !.reqd = TRUE]
      [] name = "b" -> [Field("b") EXCEPT !.depends_on = EvalEq("status", "Open")]
      [] name = "c" -> [Field("c") EXCEPT
                            !.mandatory_depends_on = EvalEq("type", "DocType"),
                            !.read_only_depends_on = Plain("a")]
      [] name = "s" -> [SectionBreak("s") EXCEPT !.label = TRUE, !.collapsible = TRUE,
                            !.collapsible_depends_on = EvalEq("status", "Open")]
      [] name = "t" -> [SectionBreak("t") EXCEPT !.label = TRUE, !.collapsible = TRUE]
      [] name = "u" -> [SectionBreak("u") EXCEPT !.collapsible = TRUE]
      [] name = "p" -> [SectionBreak("p") EXCEPT !.label = TRUE]
      [] name = "h" -> [SectionBreak("h") EXCEPT
                            !.depends_on = EvalEq("status", "Open")]
      [] OTHER -> [Field("bad") EXCEPT !.depends_on = EvalLen("a")]

CatalogNames == {"a", "b", "c", "s", "t", "u", "bad"}


---------------------------------------------------------------------------
(* The layout tree builder.  A descriptor object is named by its index in  *)
(* L.dfs (0: no descriptor, `{}`); a node carries an object id (oid) that  *)
(* is never reused.                                                         *)

NoColumn == [s |-> 0, c |-> 0]

DfAt(L, id) == IF id = 0 THEN NoDF ELSE L.dfs[id]

\* Layout.init: empty collections, then $.extend(this, opts)
\* the object whose set_df_property the layout calls (this.frm, or the
\* layout itself in a dialog): its setting_dependency flag, the per-row
\* field metadata it holds, what its property setter has seen of the
\* flag, by kind of call, and whether its setter raises an error when it
\* is called for a row
NoForm == [setting_dependency |-> FALSE, rows |-> {}, seen |-> {},
           raises |-> FALSE]

NewLayout(descs, dashboard) ==
    [dfs |-> descs, fields |-> [i \in 1..Len(descs) |-> i],
     fields_list |-> <<>>, fields_dict |-> <<>>, sections |-> <<>>,
     section |-> 0, column |-> NoColumn, page |-> 0, npages |-> 0,
     folded |-> FALSE, with_dashboard |-> dashboard, noid |-> 1,
     crashed |-> FALSE, log |-> <<>>, form |-> NoForm]

no_opening_section(L) ==
    \/ Len(L.fields) > 0 /\ L.dfs[L.fields[1]].fieldtype # "Section Break"
    \/ Len(L.fields) = 0

setup_dashboard_section(L) ==
    IF no_opening_section(L)
    THEN [L EXCEPT !.dfs = Append(@, [NoDF EXCEPT !.fieldtype = "Section Break"]),
                   !.fields = <<Len(L.dfs) + 1>> \o @]
    ELSE L

\* resizing that sets the width of the new column only
\* (a variant C32 has to tell from resize_all_columns)
resize_new_column(cols) ==
    [cols EXCEPT ![Len(cols)].width = 12 \div Len(cols)]

\* Column.resize_all_columns: cint(12 / number of columns of the section)
resize_all_columns(cols) ==
    [i \in 1..Len(cols) |-> [cols[i] EXCEPT !.width = 12 \div Len(cols)]]

\* Section.refresh: hide if explicitly hidden (read permission is granted)
SectionHide(df) == df.hidden \/ df.hidden_due_to_dependency

\* make_section that keeps the current column of the section before
\* (a variant C8 has to tell from make_section)
make_section_keep_column(L, id) ==
    LET df == DfAt(L, id)
        pg == IF L.page = 0 THEN L.npages + 1 ELSE L.page
        s == Len(L.sections) + 1
        sec == [oid |-> L.noid, df |-> id, page |-> pg, head |-> df.label,
                collapsed |-> FALSE, head_collapsed |-> FALSE,
                hide_control |-> SectionHide(df),
                aggregate |-> "",
                columns |-> <<>>, fields_list |-> <<>>, fields_dict |-> <<>>]
        ref == [oid |-> L.noid, kind |-> "section", df |-> id, section |-> s,
                parent |-> NoColumn]
    IN [L EXCEPT !.page = pg,
                 !.npages = IF L.page = 0 THEN @ + 1 ELSE @,
                 !.noid = @ + 1,
                 !.sections = Append(@, sec),
                 !.section = s,
                 !.fields_dict = IF id # 0 THEN (df.fieldname :> ref) @@ @ ELSE @,
                 !.fields_list = IF id # 0 THEN Append(@, ref) ELSE @]

\* Layout.make_section with Section.init / Section.make
make_section(L, id) ==
    LET df == DfAt(L, id)
        pg == IF L.page = 0 THEN L.npages + 1 ELSE L.page
        s == Len(L.sections) + 1
        sec == [oid |-> L.noid, df |-> id, page |-> pg, head |-> df.label,
                collapsed |-> FALSE, head_collapsed |-> FALSE,
                hide_control |-> SectionHide(df),
                aggregate |-> "",
                columns |-> <<>>, fields_list |-> <<>>, fields_dict |-> <<>>]
        ref == [oid |-> L.noid, kind |-> "section", df |-> id, section |-> s,
                parent |-> NoColumn]
    IN [L EXCEPT !.page = pg,
                 !.npages = IF L.page = 0 THEN @ + 1 ELSE @,
                 !.noid = @ + 1,
                 !.sections = Append(@, sec),
                 !.section = s,
                 !.fields_dict = IF id # 0 THEN (df.fieldname :> ref) @@ @ ELSE @,
                 !.fields_list = IF id # 0 THEN Append(@, ref) ELSE @,
                 !.column = NoColumn]

\* Layout.make_column with Column.init / make / resize_all_columns; with no
\* current section `this.section.body` raises a TypeError
make_column(L, id) ==
    IF L.section = 0
    THEN [L EXCEPT !.crashed = TRUE]
    ELSE LET s == L.section
             c == Len(L.sections[s].columns) + 1
             col == [oid |-> L.noid, df |-> id, width |-> 0]
             ref == [oid |-> L.noid, kind |-> "column", df |-> id, section |-> s,
                     parent |-> [s |-> s, c |-> c]]
         IN [L EXCEPT !.noid = @ + 1,
                      !.sections[s].columns = resize_all_columns(Append(@, col)),
                      !.column = [s |-> s, c |-> c],
                      !.fields_list = IF id # 0 /\ DfAt(L, id).fieldname # ""
                                      THEN Append(@, ref) ELSE @]

\* Layout.make_field with Layout.init_field
make_field(L, id) ==
    The({LET s == L2.section
             fieldobj == [oid |-> L2.noid, kind |-> "control", df |-> id,
                          section |-> s, parent |-> L2.column]
             name == DfAt(L, id).fieldname
         IN [L2 EXCEPT !.noid = @ + 1,
                       !.fields_list = Append(@, fieldobj),
                       !.fields_dict = (name :> fieldobj) @@ @,
                       !.sections[s].fields_list = Append(@, fieldobj),
                       !.sections[s].fields_dict = (name :> fieldobj) @@ @] :
         L2 \in {IF L1.column = NoColumn THEN make_column(L1, 0) ELSE L1 :
                    L1 \in {IF L.section = 0 THEN make_section(L, 0) ELSE L}}})

\* Layout.make_page: a new (second) page; the current section is dropped
make_page(L, id) ==
    [L EXCEPT !.npages = @ + 1, !.page = L.npages + 1, !.section = 0,
              !.folded = TRUE]

RenderOne(L, id) ==
    CASE DfAt(L, id).fieldtype = "Fold" -> make_page(L, id)
      [] DfAt(L, id).fieldtype = "Section Break" -> make_section(L, id)
      [] DfAt(L, id).fieldtype = "Column Break" -> make_column(L, id)
      [] OTHER -> make_field(L, id)

RECURSIVE RenderEach(_, _)
RenderEach(L, ids) ==
    IF ids = <<>> \/ L.crashed THEN L
    ELSE The({RenderEach(L1, Tail(ids)) : L1 \in {RenderOne(L, Head(ids))}})

\* render that goes on in the section and column it was in
\* (a variant C22 has to tell from render)
render_keep_section(L, new_fields, given) ==
    The({RenderEach(IF no_opening_section(L2) /\ L2.section = 0
                    THEN make_section(L2, 0) ELSE L2,
                    IF given THEN new_fields ELSE L2.fields) :
         L2 \in {IF L.with_dashboard THEN setup_dashboard_section(L) ELSE L}})

\* Layout.render(new_fields); given says that new_fields was passed
render(L, new_fields, given) ==
    The({RenderEach(IF no_opening_section(L2) THEN make_section(L2, 0) ELSE L2,
                    IF given THEN new_fields ELSE L2.fields) :
         L2 \in {IF L1.with_dashboard THEN setup_dashboard_section(L1) ELSE L1 :
                    L1 \in {[L EXCEPT !.section = 0, !.column = NoColumn]}}})

\* Layout.make: this.fields is given, render()
make(descs, dashboard) == render(NewLayout(descs, dashboard), <<>>, FALSE)

---------------------------------------------------------------------------
(* The dependency evaluator.  C is the context of the call: C.doc is       *)
(* this.doc, C.values what get_values(true) returns (NoDoc for a layout    *)
(* without get_values), C.owner the owner of the layout and C.frmdoc the   *)
(* document of the owning form, this.frm.doc.  An outcome is [threw, out]: *)
(* out is the truthiness of the returned value, threw says that            *)
(* frappe.throw raised.                                                    *)

Outcome(b) == [threw |-> FALSE, out |-> b]

Thrown == [threw |-> TRUE, out |-> FALSE]

\* frm.script_manager.trigger(handler, doctype, docname), coerced to boolean
ScriptTrigger(handler, d) == handler = "yes"

\* frappe.utils.eval(text, {doc, parent}) of "doc.<key>.length > 0", for a
\* value that is not null: the length of an array or of a string; a number
\* and a boolean have no length, and undefined > 0 is false
LengthPositive(v) ==
    IF IsArray(v) THEN ArrayLength(v) > 0 ELSE v \notin {"", "0", "false"}

\* frappe.utils.eval(text, {doc, parent}) of "doc.<key> == '<val>'"
EvalText(e, d, parent) == DocGet(d, e.key) = e.val

\* var doc = this.doc; if (!doc && this.get_values) doc = this.get_values(true)
DocOf(C) == IF C.doc # NoDoc THEN C.doc ELSE C.values

ParentOf_doc(C) == DocOf(C)

\* var parent = this.frm ? this.frm.doc : this.doc || null
ParentOf(C) == IF C.owner = "frm" THEN C.frmdoc ELSE C.doc

HasFormScope_any(C) == TRUE

\* ... && this.frm, of the "fn:" branch
HasFormScope(C) == C.owner = "frm"

\* the whole expression string, which the last branch looks up in doc
FieldnameOf(e) == IF e.kind = "fn" THEN "fn:" \o e.key ELSE e.key

evaluate_depends_on_value(C, e) ==
    LET d == DocOf(C)
        parent == ParentOf(C)
        value == DocGet(d, FieldnameOf(e))
    IN CASE d = NoDoc -> Outcome(FALSE)
         [] e.kind = "boolean" -> Outcome(e.val = "true")
         [] e.kind = "function" -> Outcome(DocGet(d, e.key) = e.val)
         [] e.kind = "eval" ->
                IF parent # NoDoc /\ Truthy(DocGet(parent, "istable")) /\ e.sub
                THEN Outcome(TRUE)
                ELSE Outcome(EvalText(e, d, parent))
         [] e.kind = "eval_len" ->
                IF DocGet(d, e.key) = Null THEN Thrown
                ELSE IF parent # NoDoc /\ Truthy(DocGet(parent, "istable")) /\ e.sub
                THEN Outcome(TRUE)
                ELSE Outcome(LengthPositive(DocGet(d, e.key)))
         [] e.kind = "eval_noparent" -> Outcome(parent = NoDoc)
         [] e.kind = "fn" /\ HasFormScope(C) -> Outcome(ScriptTrigger(e.key, d))
         [] OTHER -> IF IsArray(value) THEN Outcome(ArrayLength(value) > 0)
                     ELSE Outcome(Truthy(value))

---------------------------------------------------------------------------
(* The refresh pass.  A step of the pass returns [L, threw]: the layout    *)
(* it leaves and whether an exception ended it there.                      *)

Done(L) == [L |-> L, threw |-> FALSE]

Aborted(L) == [L |-> L, threw |-> TRUE]

\* f.refresh() of a node: a Section (and a Column, through its section)
\* recomputes its hide-control class; a control renders from its df, which
\* L.log records as one refresh of the control
RefreshNode(L, f) ==
    IF f.kind = "control" THEN [L EXCEPT !.log = Append(@, f.oid)]
    ELSE [L EXCEPT !.sections[f.section].hide_control =
                        SectionHide(DfAt(L, L.sections[f.section].df))]

RECURSIVE RefreshNodes(_, _)
RefreshNodes(L, i) ==
    IF i > Len(L.fields_list) THEN L
    ELSE The({RefreshNodes(L1, i + 1) : L1 \in {RefreshNode(L, L.fields_list[i])}})

\* Layout.attach_doc_and_docfields(true): bind the document, refresh each node
attach_doc_and_docfields(L) == RefreshNodes(L, 1)

\* Layout.refresh_fields(fields): the nodes whose fieldname is one of the
\* fieldnames of fields are refreshed
RECURSIVE RefreshNamed(_, _, _)
RefreshNamed(L, names, i) ==
    IF i > Len(L.fields_list) THEN L
    ELSE The({RefreshNamed(L1, names, i + 1) :
              L1 \in {IF DfAt(L, L.fields_list[i].df).fieldname \in names
                      THEN RefreshNode(L, L.fields_list[i]) ELSE L}})

refresh_fields(L, ids) ==
    RefreshNamed(L, {DfAt(L, ids[k]).fieldname : k \in 1..Len(ids)}, 1)

\* Layout.add_fields(fields): the descriptors are new objects, ids their
\* places in L.dfs; an exception in render leaves add_fields there
add_fields(L, descs) ==
    LET ids == [k \in 1..Len(descs) |-> Len(L.dfs) + k]
    IN The({IF L1.crashed THEN L1 ELSE refresh_fields(L1, ids) :
            L1 \in {render([L EXCEPT !.dfs = @ \o descs], ids, TRUE)}})

\* list.splice(start, 1, x) with a start that is an object or undefined:
\* the start converts to 0, so the first element gives way to x (an empty
\* list takes x)
splice(list, x) == IF list = <<>> THEN <<x>> ELSE <<x>> \o Tail(list)

\* Layout.replace_field(fieldname, df): init_field reads this.column, the
\* section spliced is this.section, the section render ended in
replace_field(L, fieldname, d) ==
    IF fieldname \notin DOMAIN L.fields_dict THEN L
    ELSE IF L.column = NoColumn THEN [L EXCEPT !.crashed = TRUE]
    ELSE LET id == Len(L.dfs) + 1
             fieldobj == [oid |-> L.noid, kind |-> "control", df |-> id,
                          section |-> 0, parent |-> L.column]
             L1 == [L EXCEPT !.dfs = Append(@, [d EXCEPT !.fieldname = fieldname]),
                             !.noid = @ + 1,
                             !.fields_list = splice(@, fieldobj),
                             !.fields_dict[fieldname] = fieldobj]
         IN IF L.section = 0 THEN [L1 EXCEPT !.crashed = TRUE]
            ELSE refresh_fields(
                    [L1 EXCEPT !.sections[L.section].fields_list = splice(@, fieldobj),
                               !.sections[L.section].fields_dict =
                                    (fieldname :> fieldobj) @@ @],
                    <<id>>)

\* form_obj.set_df_property(fieldname, property, value): the descriptor
\* registered under the fieldname takes the value and its node is refreshed
set_df_property(L, fieldname, property, value) ==
    IF fieldname \notin DOMAIN L.fields_dict THEN L
    ELSE LET f == L.fields_dict[fieldname]
         IN RefreshNode([L EXCEPT !.dfs[f.df][property] = value,
                                  !.form.seen = @ \cup
                                      {<<"field", L.form.setting_dependency>>}], f)

\* set_dependant_property that knows the form only, not a dialog
\* (a variant C5 has to tell from set_dependant_property)
set_dependant_property_frm_only(L, C, condition, fieldname, property) ==
    LET r == evaluate_depends_on_value(C, condition)
    IN IF r.threw THEN Aborted(L)
       ELSE IF C.owner = "frm"
            THEN Done(set_df_property(L, fieldname, property, r.out))
            ELSE Done(L)

\* this.doc && this.doc.parent && this.doc.parentfield
InRow(d) ==
    d # NoDoc /\ Truthy(DocGet(d, "parent")) /\ Truthy(DocGet(d, "parentfield"))

\* form_obj.set_df_property(parentfield, property, value, parent, fieldname,
\* docname): the field metadata of the row takes the value; the control of
\* the row layout renders from that metadata
set_row_df_property(L, parentfield, property, value, parent, fieldname, docname) ==
    LET key(r) == <<r.parentfield, r.parent, r.fieldname, r.docname, r.property>>
        new == [parentfield |-> parentfield, parent |-> parent,
                fieldname |-> fieldname, docname |-> docname,
                property |-> property, value |-> value]
        L1 == [L EXCEPT !.form.rows = {r \in @ : key(r) # key(new)} \cup {new},
                        !.form.seen = @ \cup
                            {<<"row", L.form.setting_dependency>>}]
    IN IF fieldname \notin DOMAIN L.fields_dict THEN L1
       ELSE [L1 EXCEPT !.dfs[L.fields_dict[fieldname].df][property] = value]

\* this.fields_dict[fieldname] && this.fields_dict[fieldname].refresh()
RefreshField(L, fieldname) ==
    IF fieldname \notin DOMAIN L.fields_dict THEN L
    ELSE RefreshNode(L, L.fields_dict[fieldname])

\* the push to the row metadata without the setting_dependency flag
\* (a variant C26 has to tell from RowPush)
RowPush_unflagged(L, d, fieldname, property, value) ==
    RefreshField(
        set_row_df_property(L, d["parentfield"], property, value,
                            d["parent"], fieldname, d["name"]),
        fieldname)

\* the branch of set_dependant_property for a document of a sub-table row
RowPush(L, d, fieldname, property, value) ==
    RefreshField(
        [set_row_df_property([L EXCEPT !.form.setting_dependency = TRUE],
                             d["parentfield"], property, value,
                             d["parent"], fieldname, d["name"])
            EXCEPT !.form.setting_dependency = FALSE],
        fieldname)

\* Layout.set_dependant_property
set_dependant_property(L, C, condition, fieldname, property) ==
    LET r == evaluate_depends_on_value(C, condition)
    IN IF r.threw THEN Aborted(L)
       ELSE IF C.owner \in {"frm", "dialog"}
            THEN IF InRow(C.doc)
                 THEN IF L.form.raises
                      THEN Aborted([L EXCEPT !.form.setting_dependency = TRUE])
                      ELSE Done(RowPush(L, C.doc, fieldname, property, r.out))
                 ELSE Done(set_df_property(L, fieldname, property, r.out))
            ELSE Done(L)

\* the guardian failing open: a throwing depends_on shows the field
\* (a variant C11 has to tell from Guardian)
Guardian_fail_open(L, C, f) ==
    LET df == DfAt(L, f.df)
        g == evaluate_depends_on_value(C, df.depends_on)
    IN IF ~IsSet(df.depends_on) THEN Done(L)
       ELSE IF g.threw
            THEN Aborted([L EXCEPT !.dfs[f.df].hidden_due_to_dependency = FALSE])
       ELSE IF df.hidden_due_to_dependency # ~g.out
            THEN Done(RefreshNode(
                    [L EXCEPT !.dfs[f.df].hidden_due_to_dependency = ~g.out], f))
            ELSE Done(L)

\* the guardian with the polarity of depends_on inverted
\* (a variant C3 has to tell from Guardian)
Guardian_inverted(L, C, f) ==
    LET df == DfAt(L, f.df)
        g == evaluate_depends_on_value(C, df.depends_on)
    IN IF ~IsSet(df.depends_on) THEN Done(L)
       ELSE IF g.threw THEN Aborted(L)
       ELSE IF df.hidden_due_to_dependency # g.out
            THEN Done(RefreshNode(
                    [L EXCEPT !.dfs[f.df].hidden_due_to_dependency = g.out], f))
            ELSE Done(L)

\* the guardian flipping the flag whenever depends_on is false, instead of
\* setting it (a variant C4 has to tell from Guardian)
Guardian_toggle(L, C, f) ==
    LET df == DfAt(L, f.df)
        g == evaluate_depends_on_value(C, df.depends_on)
    IN IF ~IsSet(df.depends_on) THEN Done(L)
       ELSE IF g.threw THEN Aborted(L)
       ELSE IF g.out
            THEN Done(RefreshNode(
                    [L EXCEPT !.dfs[f.df].hidden_due_to_dependency = FALSE], f))
            ELSE Done(RefreshNode(
                    [L EXCEPT !.dfs[f.df].hidden_due_to_dependency = ~@], f))

\* the show / hide part of one iteration of refresh_dependency
Guardian(L, C, f) ==
    LET df == DfAt(L, f.df)
        g == evaluate_depends_on_value(C, df.depends_on)
    IN IF ~IsSet(df.depends_on) THEN Done(L)
       ELSE IF g.threw THEN Aborted(L)
       ELSE IF df.hidden_due_to_dependency # ~g.out
            THEN Done(RefreshNode(
                    [L EXCEPT !.dfs[f.df].hidden_due_to_dependency = ~g.out], f))
            ELSE Done(L)

\* one iteration of the loop of refresh_dependency, for fields_list[i]
DependencyOf(L, C, i) ==
    LET f == L.fields_list[i]
        df == DfAt(L, f.df)
    IN The({IF r2.threw \/ ~IsSet(df.read_only_depends_on) THEN r2
            ELSE set_dependant_property(r2.L, C, df.read_only_depends_on,
                                        df.fieldname, "read_only") :
            r2 \in {IF r1.threw \/ ~IsSet(df.mandatory_depends_on) THEN r1
                    ELSE set_dependant_property(r1.L, C, df.mandatory_depends_on,
                                                df.fieldname, "reqd") :
                    r1 \in {Guardian(L, C, f)}}})

RECURSIVE DependencyLoop(_, _, _)
DependencyLoop(L, C, i) ==
    IF i = 0 THEN Done(L)
    ELSE The({IF r.threw THEN r ELSE DependencyLoop(r.L, C, i - 1) :
              r \in {DependencyOf(L, C, i)}})

HasDep(df) ==
    IsSet(df.depends_on) \/ IsSet(df.mandatory_depends_on)
        \/ IsSet(df.read_only_depends_on)

refresh_dependency(L, C) ==
    IF ~\E i \in 1..Len(L.fields_list) : HasDep(DfAt(L, L.fields_list[i].df))
    THEN Done(L)
    ELSE DependencyLoop(L, C, Len(L.fields_list))

\* the display status a control derives from its descriptor in refresh()
\* (read permission granted): "None", "Read" or "Write"
DispStatus(df) ==
    IF df.hidden \/ df.hidden_due_to_dependency THEN "None"
    ELSE IF df.read_only THEN "Read" ELSE "Write"

\* the control's wrapper carries the class hide-control
HideControl(df) == DispStatus(df) = "None"

\* Layout.refresh_sections: every section that is not hidden is classed
\* visible-section or empty-section
refresh_sections(L) ==
    [L EXCEPT !.sections = [s \in 1..Len(L.sections) |->
        IF L.sections[s].hide_control THEN L.sections[s]
        ELSE [L.sections[s] EXCEPT !.aggregate =
                IF \E j \in 1..Len(L.sections[s].fields_list) :
                        ~HideControl(DfAt(L, L.sections[s].fields_list[j].df))
                THEN "visible-section" ELSE "empty-section"]]]

\* has_missing_mandatory that takes only the empty string for missing
\* (a variant C6 has to tell from has_missing_mandatory)
has_missing_mandatory_empty(L, sec, d) ==
    \E j \in 1..Len(sec.fields_list) :
        LET section_df == DfAt(L, sec.fields_list[j].df)
        IN section_df.reqd /\ DocGet(d, section_df.fieldname) = ""

\* Section.has_missing_mandatory
has_missing_mandatory(L, sec, d) ==
    \E j \in 1..Len(sec.fields_list) :
        LET section_df == DfAt(L, sec.fields_list[j].df)
        IN section_df.reqd /\ DocGet(d, section_df.fieldname) = Null

\* collapse that does not ask for the head
\* (a variant C15 has to tell from collapse)
collapse_headless(sec, hide) ==
    [sec EXCEPT !.collapsed = hide, !.head_collapsed = hide]

\* collapse that ignores its argument and toggles
\* (a variant C1 has to tell from collapse)
collapse_toggle(sec, hide) ==
    IF ~sec.head THEN sec
    ELSE [sec EXCEPT !.collapsed = ~@, !.head_collapsed = ~sec.collapsed]

\* collapse that hides the body and leaves the head's marker
\* (a variant C35 has to tell from collapse)
collapse_body(sec, hide) ==
    IF ~sec.head THEN sec ELSE [sec EXCEPT !.collapsed = hide]

\* Section.collapse(hide) with hide given: the body's class "hide"
\* (collapsed, what is_collapsed reads) and the head's class "collapsed"
collapse(sec, hide) ==
    IF ~sec.head THEN sec
    ELSE [sec EXCEPT !.collapsed = hide, !.head_collapsed = hide]

\* Section.collapse() as the click handler calls it: toggle
toggle(sec) == collapse(sec, ~sec.collapsed)

\* the value of `collapse` without the look at missing required values
\* (a variant C14 has to tell from CollapseValue)
CollapseValue_no_mandatory(L, C, sec) ==
    LET df == DfAt(L, sec.df)
        r == evaluate_depends_on_value(C, df.collapsible_depends_on)
    IN IF IsSet(df.collapsible_depends_on) THEN ~r.out ELSE TRUE

\* the value of `collapse` with the polarity of collapsible_depends_on
\* inverted (a variant C7 has to tell from CollapseValue)
CollapseValue_inverted(L, C, sec) ==
    LET df == DfAt(L, sec.df)
        r == evaluate_depends_on_value(C, df.collapsible_depends_on)
        c1 == IF IsSet(df.collapsible_depends_on) THEN r.out ELSE TRUE
    IN c1 /\ ~has_missing_mandatory(L, sec, C.doc)

\* the value of `collapse` refresh_section_collapse computes for a section
CollapseValue(L, C, sec) ==
    LET df == DfAt(L, sec.df)
        r == evaluate_depends_on_value(C, df.collapsible_depends_on)
        c1 == IF IsSet(df.collapsible_depends_on) THEN ~r.out ELSE TRUE
    IN c1 /\ ~has_missing_mandatory(L, sec, C.doc)

CollapseThrows(L, C, sec) ==
    LET df == DfAt(L, sec.df)
    IN df.collapsible /\ IsSet(df.collapsible_depends_on)
        /\ evaluate_depends_on_value(C, df.collapsible_depends_on).threw

RECURSIVE CollapseLoop(_, _, _)
CollapseLoop(L, C, i) ==
    IF i > Len(L.sections) THEN Done(L)
    ELSE LET sec == L.sections[i]
         IN IF ~DfAt(L, sec.df).collapsible THEN CollapseLoop(L, C, i + 1)
            ELSE IF CollapseThrows(L, C, sec) THEN Aborted(L)
            ELSE The({CollapseLoop(L1, C, i + 1) :
                      L1 \in {[L EXCEPT !.sections[i] =
                                    collapse(sec, CollapseValue(L, C, sec))]}})

refresh_section_collapse(L, C) == CollapseLoop(L, C, 1)

\* refresh that runs the collapse step whoever owns the layout
\* (a variant C2 has to tell from refresh)
refresh_collapse_always(L, C) ==
    The({IF r2.threw THEN r2 ELSE refresh_section_collapse(r2.L, C) :
         r2 \in {IF r1.threw THEN r1 ELSE Done(refresh_sections(r1.L)) :
                    r1 \in {refresh_dependency(L1, C) :
                                L1 \in {attach_doc_and_docfields(L)}}}})

\* Layout.refresh(doc)
refresh(L, C) ==
    The({IF r2.threw \/ C.owner # "frm" THEN r2
         ELSE refresh_section_collapse(r2.L, C) :
         r2 \in {IF r1.threw THEN r1 ELSE Done(refresh_sections(r1.L)) :
                    r1 \in {refresh_dependency(L1, C) :
                                L1 \in {attach_doc_and_docfields(L)}}}})

---------------------------------------------------------------------------
(* Spec: the refresh engine.                                               *)

Injective(q) == \A i, j \in DOMAIN q : q[i] = q[j] => i = j

\* who owns the layout: a form (this.frm), a dialog or web form
\* (this.is_dialog, this.doctype === 'Web Form'), or neither
Owners == {"frm", "dialog", "none"}

\* the descriptor lists of Spec: fieldnames are unique within one layout
DescLists ==
    UNION {{q \in [1..n -> CatalogNames] : Injective(q)} : n \in 0..MaxFields}

Descs(q) == [i \in 1..Len(q) |-> Catalog(q[i])]

NoTab == [on |-> FALSE]

\* the (visible, required, read_only) state of the node fields_list[i]
DepState(L, i) ==
    LET df == DfAt(L, L.fields_list[i].df)
    IN <<~df.hidden /\ ~df.hidden_due_to_dependency, df.reqd, df.read_only>>

Collapsed(L) == [s \in 1..Len(L.sections) |-> L.sections[s].collapsed]

\* the context of a call made by the layout: the main layout of a form is
\* bound to the form's document, and refresh(doc) leaves this.doc set
Ctx(d) == [doc |-> d, owner |-> owner, values |-> NoDoc, frmdoc |-> d]

Init ==
    /\ layout \in {make(Descs(q), FALSE) : q \in DescLists}
    /\ owner \in Owners
    /\ doc = NoDoc
    /\ hist = [op |-> "init", res |-> "none", chg |-> "none", rep |-> FALSE,
               eff |-> {}, user |-> [s \in 1..Len(layout.sections) |-> "none"]]
    /\ tab = NoTab

\* how the document d differs from the bound one: "none", the one key
\* that changed, or "many" (also for the first document bound)
Change(old, d) ==
    LET ks == {k \in DocKeys : d[k] # old[k]}
    IN IF ks = {} THEN "none"
       ELSE IF Cardinality(ks) = 1 THEN CHOOSE k \in ks : TRUE ELSE "many"

\* refresh(d): the layout's owner hands the document d to a refresh pass
Refresh(d) ==
    \E r \in {refresh(layout, Ctx(d))} :
       /\ layout' = [r.L EXCEPT !.log = <<>>]
       /\ doc' = d
       /\ hist' = [hist EXCEPT
                !.op = "refresh",
                !.res = IF r.threw THEN "threw" ELSE "ok",
                !.chg = Change(doc, d),
                !.rep = (hist.op = "refresh" /\ d = doc),
                !.eff = {i \in 1..Len(layout.fields_list) :
                            DepState(r.L, i) # DepState(layout, i)}]
       /\ UNCHANGED <<owner, tab>>

\* the user clicks the head of section s; the handler exists for a
\* collapsible section with a label and calls collapse()
Click(s) ==
    /\ layout.sections[s].head
    /\ DfAt(layout, layout.sections[s].df).collapsible
    /\ layout' = [layout EXCEPT !.sections[s] = toggle(@)]
    /\ hist' = [hist EXCEPT
                !.op = "click", !.rep = FALSE,
                !.user[s] = IF layout.sections[s].collapsed
                            THEN "expanded" ELSE "collapsed"]
    /\ UNCHANGED <<doc, owner, tab>>

Next ==
    \/ \E d \in Docs : Refresh(d)
    \/ \E s \in 1..Len(layout.sections) : Click(s)

Spec == Init /\ [][Next]_vars

---------------------------------------------------------------------------
(* Claims about the refresh engine (Spec).                                 *)

Nodes == 1..Len(layout.fields_list)

Sections == 1..Len(layout.sections)

NodeDf(i) == DfAt(layout, layout.fields_list[i].df)

SecDf(s) == DfAt(layout, layout.sections[s].df)

\* the step is a refresh pass
RefreshStep == hist'.op = "refresh"

\* the declarative collapse state of section s for the document d:
\* collapsible_depends_on is absent or evaluates false
DeclaredCollapsed(s, d) ==
    \/ ~IsSet(SecDf(s).collapsible_depends_on)
    \/ ~evaluate_depends_on_value(Ctx(d), SecDf(s).collapsible_depends_on).out

\* a direct control of section s is required and its value is missing in d
MissingMandatory(L, s, d) ==
    \E j \in 1..Len(L.sections[s].fields_list) :
        /\ DfAt(L, L.sections[s].fields_list[j].df).reqd
        /\ DocGet(d, DfAt(L, L.sections[s].fields_list[j].df).fieldname) = Null

\* C1: a second refresh() in a row with the same document leaves every
\* node's (visible, required, read_only) as the first call left them and
\* changes no section's collapse state.
C1_RefreshIdempotent ==
    [][(hist.op = "refresh" /\ RefreshStep /\ doc' = doc) =>
            /\ \A i \in Nodes : DepState(layout', i) = DepState(layout, i)
            /\ Collapsed(layout') = Collapsed(layout)]_vars

\* a second refresh in a row of the same document, completed, with a node
\* hidden by its dependency and a section collapsed
C1_Witness ==
    /\ hist.op = "refresh" /\ hist.rep /\ hist.res = "ok"
    /\ \E i \in Nodes : NodeDf(i).hidden_due_to_dependency
    /\ \E s \in Sections : layout.sections[s].collapsed

\* C2 as claimed: a section the user collapsed by a click is still
\* collapsed after a refresh of the unchanged document.
C2_UserCollapseKept ==
    [][\A s \in Sections :
        (hist.op = "click" /\ hist.user[s] = "collapsed"
            /\ layout.sections[s].collapsed /\ RefreshStep /\ doc' = doc)
        => layout'.sections[s].collapsed]_vars

\* C2 amended: a section the user collapsed by a click is still collapsed
\* after a refresh of the unchanged document if the layout has no owning
\* form, or if the section's declarative state is collapsed
\* (collapsible_depends_on absent or false, no direct control required
\* with a missing value); in a form's layout a refresh that returns
\* expands every other section again.
C2_UserCollapseKeptIfDeclared ==
    [][\A s \in Sections :
        (hist.op = "click" /\ hist.user[s] = "collapsed"
            /\ layout.sections[s].collapsed /\ RefreshStep /\ doc' = doc)
        => LET kept == \/ owner # "frm"
                       \/ /\ DeclaredCollapsed(s, doc)
                          /\ ~MissingMandatory(layout', s, doc)
           IN /\ kept => layout'.sections[s].collapsed
              /\ (hist'.res = "ok" /\ ~kept) => ~layout'.sections[s].collapsed]_vars

\* a form's section, collapsed by the user's click, is still collapsed
\* after the refresh of the unchanged document that followed the click
C2_Witness ==
    /\ hist.op = "refresh" /\ hist.chg = "none" /\ ~hist.rep /\ hist.res = "ok"
    /\ owner = "frm"
    /\ \E s \in Sections :
            hist.user[s] = "collapsed" /\ layout.sections[s].collapsed

\* C3: after a refresh pass that completed, a field whose depends_on is
\* "eval: doc.status == 'Open'" is not hidden due to dependency iff
\* doc.status is "Open" (so Open -> Closed -> Open with a refresh after
\* each change shows, hides and shows the field).
C3_DependsOnStatus ==
    hist.res = "ok" =>
        \A i \in Nodes :
            NodeDf(i).depends_on = EvalEq("status", "Open") =>
                (~NodeDf(i).hidden_due_to_dependency <=> doc["status"] = "Open")

\* the refresh after status alone changed (back) to Open made the field,
\* hidden until then, visible again
C3_Witness ==
    /\ hist.op = "refresh" /\ hist.res = "ok" /\ hist.chg = "status"
    /\ doc["status"] = "Open"
    /\ \E i \in Nodes :
            /\ NodeDf(i).depends_on = EvalEq("status", "Open")
            /\ i \in hist.eff
            /\ DepState(layout, i)[1]

\* the document keys the conditions of node i read
NodeReads(i) ==
    ReadsOf(NodeDf(i).depends_on) \cup ReadsOf(NodeDf(i).mandatory_depends_on)
        \cup ReadsOf(NodeDf(i).read_only_depends_on)

\* C4: when exactly one document field k changed since the last completed
\* refresh, the next completed refresh changes (visible, required,
\* read_only) only of nodes whose conditions read k.
C4_FrameOfChange ==
    [][\A k \in DocKeys :
        (hist.res = "ok" /\ RefreshStep /\ hist'.res = "ok"
            /\ doc # NoDoc /\ Change(doc, doc') = k)
        => \A i \in Nodes :
                k \notin NodeReads(i) => DepState(layout', i) = DepState(layout, i)]_vars

\* in a layout whose conditions never throw, the refresh after one field
\* changed has changed one conditional node and left another as it was
C4_Witness ==
    /\ hist.op = "refresh" /\ hist.res = "ok" /\ hist.chg \in DocKeys
    /\ \A i \in Nodes : NodeDf(i).depends_on.kind # "eval_len"
    /\ hist.eff # {}
    /\ \E i \in Nodes : i \notin hist.eff /\ HasDep(NodeDf(i))

\* C5 as claimed: after a refresh pass that returned, a field whose
\* mandatory_depends_on is "eval: doc.type == 'DocType'" is required iff
\* doc.type is "DocType", whatever the other document fields hold.
C5_MandatoryDependsOnType ==
    hist.res = "ok" =>
        \A i \in Nodes :
            NodeDf(i).mandatory_depends_on = EvalEq("type", "DocType") =>
                (NodeDf(i).reqd <=> doc["type"] = "DocType")

\* C5 amended: the same, in a layout owned by a form, a dialog or a web
\* form; any other layout evaluates the condition and leaves reqd alone.
C5_MandatoryDependsOnTypeOwned ==
    (hist.res = "ok" /\ owner \in {"frm", "dialog"}) =>
        \A i \in Nodes :
            NodeDf(i).mandatory_depends_on = EvalEq("type", "DocType") =>
                (NodeDf(i).reqd <=> doc["type"] = "DocType")

\* the refresh after an unrelated field changed leaves the field required
\* since doc.type is "DocType"
C5_Witness ==
    /\ hist.op = "refresh" /\ hist.res = "ok" /\ hist.chg \in {"status", "a"}
    /\ owner = "dialog"
    /\ doc["type"] = "DocType"
    /\ \E i \in Nodes :
            /\ NodeDf(i).mandatory_depends_on = EvalEq("type", "DocType")
            /\ NodeDf(i).reqd

\* C6 as claimed: after a refresh pass, a collapsible section with a direct
\* control that is required and whose value is missing is expanded.
C6_MissingMandatoryExpanded ==
    (hist.op = "refresh" /\ hist.res = "ok") =>
        \A s \in Sections :
            (SecDf(s).collapsible /\ MissingMandatory(layout, s, doc))
                => ~layout.sections[s].collapsed

\* C6 amended: after a refresh pass of a layout owned by a form, such a
\* section is expanded, whatever collapsible_depends_on evaluates to.
C6_MissingMandatoryExpandedInForm ==
    (hist.op = "refresh" /\ hist.res = "ok" /\ owner = "frm") =>
        \A s \in Sections :
            (SecDf(s).collapsible /\ MissingMandatory(layout, s, doc))
                => ~layout.sections[s].collapsed

\* a form's section whose collapsible_depends_on asks for collapse, and
\* which the user had collapsed, is expanded by the refresh since a
\* required control of it has no value
C6_Witness ==
    /\ hist.op = "refresh" /\ hist.res = "ok" /\ owner = "frm"
    /\ \E s \in Sections :
            /\ SecDf(s).collapsible /\ IsSet(SecDf(s).collapsible_depends_on)
            /\ DeclaredCollapsed(s, doc)
            /\ MissingMandatory(layout, s, doc)
            /\ hist.user[s] = "collapsed"
            /\ ~layout.sections[s].collapsed

\* the refresh step finds the missing required value of section s filled
FilledBy(s) ==
    /\ RefreshStep /\ hist'.res = "ok" /\ doc # NoDoc
    /\ SecDf(s).collapsible
    /\ MissingMandatory(layout, s, doc)
    /\ ~MissingMandatory(layout', s, doc')

\* C7 as claimed: once the missing required field is filled, a refresh
\* collapses the section only if collapsible_depends_on evaluates true
\* and the user has not manually expanded the section.
C7_CollapseOnlyIfDependsOnTrue ==
    [][\A s \in Sections :
        (FilledBy(s) /\ ~layout.sections[s].collapsed /\ layout'.sections[s].collapsed)
        => /\ IsSet(SecDf(s).collapsible_depends_on)
           /\ evaluate_depends_on_value(Ctx(doc'), SecDf(s).collapsible_depends_on).out
           /\ hist.user[s] # "expanded"]_vars

\* C7 amended: once the missing required field is filled, a completed
\* refresh of a form's layout leaves the (labelled) section collapsed iff
\* collapsible_depends_on is absent or evaluates false, whether or not the
\* user had expanded the section.
C7_CollapseIffDeclared ==
    [][\A s \in Sections :
        (FilledBy(s) /\ owner = "frm" /\ layout.sections[s].head)
        => (layout'.sections[s].collapsed <=> DeclaredCollapsed(s, doc'))]_vars

\* the refresh after the required field "a" alone was filled collapsed a
\* form's section although the user had expanded it
C7_Witness ==
    /\ hist.op = "refresh" /\ hist.res = "ok" /\ hist.chg = "a" /\ owner = "frm"
    /\ doc["a"] = "v"
    /\ \E s \in Sections :
            /\ \E j \in 1..Len(layout.sections[s].fields_list) :
                    /\ DfAt(layout, layout.sections[s].fields_list[j].df).fieldname = "a"
                    /\ DfAt(layout, layout.sections[s].fields_list[j].df).reqd
            /\ hist.user[s] = "expanded"
            /\ layout.sections[s].collapsed

\* the evaluation of the "eval:" expression e throws for the document d
Throws(e, d) == e.kind = "eval_len" /\ DocGet(d, e.key) = Null

\* C11: when the depends_on of a field throws for the document of a
\* refresh pass, the field's visibility after the pass is its visibility
\* before the pass.
C11_ThrowKeepsVisibility ==
    [][\A i \in Nodes :
        (RefreshStep /\ Throws(NodeDf(i).depends_on, doc'))
            => DepState(layout', i)[1] = DepState(layout, i)[1]]_vars

\* the pass was ended by the throwing depends_on of a field that a pass
\* before had hidden, and the field is still hidden
C11_Witness ==
    /\ hist.op = "refresh" /\ hist.res = "threw"
    /\ \E i \in Nodes :
            /\ Throws(NodeDf(i).depends_on, doc)
            /\ NodeDf(i).hidden_due_to_dependency

\* C12: every refresh call returns normally, also when an "eval:"
\* expression throws at evaluation time.
C12_RefreshReturns == hist.op = "refresh" => hist.res = "ok"

\* section s is classed by the aggregate step as its controls are now
AggregateOf(s) ==
    layout.sections[s].hide_control
    \/ layout.sections[s].aggregate =
            IF \E j \in 1..Len(layout.sections[s].fields_list) :
                    LET df == DfAt(layout, layout.sections[s].fields_list[j].df)
                    IN ~df.hidden /\ ~df.hidden_due_to_dependency
            THEN "visible-section" ELSE "empty-section"

\* C13: after every refresh pass, also one in which the expression of a
\* field failed, every other field's dependency state is the one of the
\* pass's document, and the aggregate and collapse steps have run.
C13_OthersStillRecomputed ==
    hist.op = "refresh" =>
        /\ \A i \in Nodes :
                /\ NodeDf(i).depends_on = EvalEq("status", "Open") =>
                        (~NodeDf(i).hidden_due_to_dependency <=> doc["status"] = "Open")
                /\ (NodeDf(i).mandatory_depends_on = EvalEq("type", "DocType")
                        /\ owner \in {"frm", "dialog"}) =>
                        (NodeDf(i).reqd <=> doc["type"] = "DocType")
        /\ \A s \in Sections : AggregateOf(s)
        /\ owner = "frm" =>
                \A s \in Sections :
                    (SecDf(s).collapsible /\ layout.sections[s].head) =>
                        (layout.sections[s].collapsed <=>
                            DeclaredCollapsed(s, doc) /\ ~MissingMandatory(layout, s, doc))

FirstRefresh == hist.op = "init" /\ RefreshStep /\ hist'.res = "ok"

\* C15 as claimed: after the first refresh pass on a freshly built layout
\* owned by a form or a dialog, a section is collapsed iff it is
\* collapsible, its collapsible_depends_on is absent or false and none of
\* its direct controls is required with a missing value.
C15_FirstPassCollapse ==
    [][(FirstRefresh /\ owner \in {"frm", "dialog"}) =>
        \A s \in Sections :
            layout'.sections[s].collapsed <=>
                /\ SecDf(s).collapsible
                /\ DeclaredCollapsed(s, doc')
                /\ ~MissingMandatory(layout', s, doc')]_vars

\* C15 amended: after the first refresh pass on a freshly built layout, a
\* section is collapsed iff the layout is owned by a form and the section
\* has a label, is collapsible, its collapsible_depends_on is absent or
\* false and none of its direct controls is required with a missing
\* value; in a dialog's layout no section is collapsed.
C15_FirstPassCollapseInForm ==
    [][FirstRefresh =>
        \A s \in Sections :
            layout'.sections[s].collapsed <=>
                /\ owner = "frm"
                /\ layout.sections[s].head
                /\ SecDf(s).collapsible
                /\ DeclaredCollapsed(s, doc')
                /\ ~MissingMandatory(layout', s, doc')]_vars

\* after a refresh with no click before it, a form's layout has a
\* collapsed section next to a collapsible one without a label, expanded
C15_Witness ==
    /\ hist.op = "refresh" /\ hist.res = "ok" /\ owner = "frm" /\ ~hist.rep
    /\ \A s \in Sections : hist.user[s] = "none"
    /\ \E s \in Sections : layout.sections[s].collapsed
    /\ \E s \in Sections :
            /\ SecDf(s).collapsible /\ ~layout.sections[s].head
            /\ ~layout.sections[s].collapsed

---------------------------------------------------------------------------
(* SpecBuild: the tree builder over every descriptor list of bounded       *)
(* length.  The i-th descriptor of a list has the fieldname Names[i].      *)

Names == <<"f1", "f2", "f3", "f4", "f5", "f6", "f7", "f8">>

BuildTypes == {"Data", "Section Break", "Column Break", "Fold"}

BuildLists == UNION {[1..n -> BuildTypes] : n \in 0..MaxDescs}

BuildDescs(q) ==
    [i \in 1..Len(q) |-> [NoDF EXCEPT !.fieldname = Names[i], !.fieldtype = q[i]]]

\* the state after Layout.init: nothing is rendered yet
InitBuild ==
    /\ layout \in {NewLayout(BuildDescs(q), dashboard) :
                        q \in BuildLists, dashboard \in BOOLEAN}
    /\ owner = "frm"
    /\ doc = NoDoc
    /\ hist = [op |-> "init", given |-> Len(layout.dfs), nodes |-> 0,
               sections |-> 0, reps |-> 0, name |-> ""]
    /\ tab = NoTab

\* Layout.make: render() of this.fields
Make ==
    /\ hist.op = "init"
    /\ layout' = render(layout, <<>>, FALSE)
    /\ hist' = [hist EXCEPT !.op = "make"]
    /\ UNCHANGED <<doc, owner, tab>>

AddLists == UNION {[1..n -> BuildTypes] : n \in 1..MaxAdd}

\* the descriptors of the list q handed to add_fields
AddDescs(q) ==
    [k \in 1..Len(q) |->
        [NoDF EXCEPT !.fieldname = Names[Len(layout.dfs) + k], !.fieldtype = q[k]]]

\* Layout.add_fields(fields) on a layout that was built from a short list;
\* hist keeps how many nodes and sections there were
AddFields(q) ==
    /\ hist.op = "make" /\ ~layout.crashed
    /\ hist.given <= MaxFields
    /\ layout' = add_fields(layout, AddDescs(q))
    /\ hist' = [hist EXCEPT !.op = "add", !.nodes = Len(layout.fields_list),
                            !.sections = Len(layout.sections)]
    /\ UNCHANGED <<doc, owner, tab>>

\* Layout.replace_field(fieldname, df) with a new Data descriptor, for a
\* fieldname the layout has registered
ReplaceField(fieldname) ==
    /\ hist.op \in {"make", "add", "replace"} /\ ~layout.crashed
    /\ hist.given <= MaxFields /\ hist.reps < MaxReplace
    /\ fieldname \in DOMAIN layout.fields_dict
    /\ layout' = replace_field(layout, fieldname, Field("new"))
    /\ hist' = [hist EXCEPT !.op = "replace", !.reps = @ + 1, !.name = fieldname]
    /\ UNCHANGED <<doc, owner, tab>>

NextBuild ==
    \/ Make
    \/ \E q \in AddLists : AddFields(q)
    \/ \E k \in 1..Len(Names) : ReplaceField(Names[k])

SpecBuild == InitBuild /\ [][NextBuild]_vars

\* the types of the descriptors the layout was given
GivenTypes == [i \in 1..hist.given |-> layout.dfs[i].fieldtype]

\* the control built for the given descriptor id
ControlOf(id) ==
    CHOOSE f \in {layout.fields_list[i] : i \in Nodes} :
        f.kind = "control" /\ f.df = id

HasControl(id) ==
    \E i \in Nodes : layout.fields_list[i].kind = "control"
                        /\ layout.fields_list[i].df = id

\* section s was made for no descriptor the layout was given
Synthesized(s) == layout.sections[s].df \notin 1..hist.given

\* the given descriptors before the first section-break
BeforeFirstBreak ==
    {i \in 1..hist.given :
        \A j \in 1..i : layout.dfs[j].fieldtype # "Section Break"}

\* the descriptor ids of the controls of section s, and of those in its
\* column c
SectionControls(s) ==
    {layout.sections[s].fields_list[j].df :
        j \in 1..Len(layout.sections[s].fields_list)}

ColumnControls(s, c) ==
    {layout.sections[s].fields_list[j].df :
        j \in {x \in 1..Len(layout.sections[s].fields_list) :
                layout.sections[s].fields_list[x].parent = [s |-> s, c |-> c]}}

\* [A, section-break, B, column-break, C] gives two sections: a leading
\* synthesized one holding A, and the explicit one with two columns
\* holding B and C
ExampleBuilt ==
    GivenTypes = <<"Data", "Section Break", "Data", "Column Break", "Data">> =>
        /\ Len(layout.sections) = 2
        /\ Synthesized(1) /\ SectionControls(1) = {1}
        /\ layout.sections[2].df = 2
        /\ Len(layout.sections[2].columns) = 2
        /\ ColumnControls(2, 1) = {3} /\ ColumnControls(2, 2) = {5}

\* C8 as claimed: the example, and every field before the first
\* section-break is in the synthesized first section.
C8_BuildLeadingSection ==
    hist.op = "make" =>
        /\ ExampleBuilt
        /\ \A id \in BeforeFirstBreak :
                HasControl(id) => ControlOf(id).section = 1 /\ Synthesized(1)

\* C8 amended: the example, and every field before the first
\* section-break is in a synthesized section, never in an explicit one:
\* in the first section when no page-break precedes the field.
C8_BuildSynthesizedSection ==
    hist.op = "make" =>
        /\ ExampleBuilt
        /\ \A id \in BeforeFirstBreak :
                HasControl(id) =>
                    /\ Synthesized(ControlOf(id).section)
                    /\ (\A j \in 1..id : layout.dfs[j].fieldtype # "Fold")
                            => ControlOf(id).section = 1

\* the example list is built: two sections, A in the first
C8_Witness ==
    /\ hist.op = "make"
    /\ GivenTypes = <<"Data", "Section Break", "Data", "Column Break", "Data">>
    /\ Len(layout.sections) = 2
    /\ ControlOf(1).section = 1 /\ ControlOf(5).parent = [s |-> 2, c |-> 2]

\* C22: add_fields only appends: every node keeps its identity and its
\* place in fields_list, the sections that were there keep their place and
\* their controls
C22_AddFieldsAppends ==
    [][hist'.op = "add" =>
          /\ Len(layout'.fields_list) >= Len(layout.fields_list)
          /\ \A i \in 1..Len(layout.fields_list) :
                layout'.fields_list[i] = layout.fields_list[i]
          /\ Len(layout'.sections) >= Len(layout.sections)
          /\ \A s \in 1..Len(layout.sections) :
                /\ layout'.sections[s].oid = layout.sections[s].oid
                /\ layout'.sections[s].fields_list = layout.sections[s].fields_list]_vars

C22_Witness ==
    /\ hist.op = "add" /\ ~layout.crashed /\ hist.nodes > 0
    /\ Len(layout.fields_list) > hist.nodes
    /\ \E i \in Nodes :
          /\ i > hist.nodes /\ layout.fields_list[i].kind = "control"
          /\ layout.fields_list[i].section > hist.sections
    /\ \E i \in Nodes : i <= hist.nodes /\ layout.fields_list[i].kind = "control"

\* C29: for every descriptor list build completes, every control is in a
\* column of a section, and a leading section is synthesized when the list
\* is empty or does not start with a section-break
C29_BuildTree ==
    hist.op = "make" =>
        /\ ~layout.crashed
        /\ \A i \in Nodes :
              layout.fields_list[i].kind = "control" =>
                  /\ layout.fields_list[i].section \in 1..Len(layout.sections)
                  /\ layout.fields_list[i].parent # NoColumn
                  /\ layout.fields_list[i].parent.s = layout.fields_list[i].section
                  /\ layout.fields_list[i].parent.c \in
                        1..Len(layout.sections[layout.fields_list[i].section].columns)
        /\ (hist.given = 0 \/ GivenTypes[1] # "Section Break") =>
              (Len(layout.sections) > 0 /\ Synthesized(1))

\* C32 as stated: the n columns of a section carry one width, and n times
\* that width is the 12 units of the grid
C32_ColumnsFillGrid ==
    hist.op # "init" =>
        \A s \in 1..Len(layout.sections) :
            \A c \in 1..Len(layout.sections[s].columns) :
                layout.sections[s].columns[c].width
                    * Len(layout.sections[s].columns) = 12

\* C32: the n columns of a section carry one width, the whole part of
\* 12 / n, after every column added by make or add_fields
C32_ColumnsShareGrid ==
    hist.op # "init" =>
        \A s \in 1..Len(layout.sections) :
            \A c \in 1..Len(layout.sections[s].columns) :
                layout.sections[s].columns[c].width
                    = 12 \div Len(layout.sections[s].columns)

\* five column-breaks built into one section: each of the five columns is
\* 2 units wide
C32_Witness ==
    /\ hist.op = "make" /\ ~layout.crashed
    /\ \E s \in 1..Len(layout.sections) :
        /\ Len(layout.sections[s].columns) = 5
        /\ \A c \in 1..5 : layout.sections[s].columns[c].width = 2

\* C36: after make, add_fields and replace_field every control of the
\* layout's list is in the list of exactly one section, the one its
\* section reference names
C36_ControlInOneSection ==
    hist.op # "init" =>
        \A i \in 1..Len(layout.fields_list) :
            layout.fields_list[i].kind = "control" =>
                LET f == layout.fields_list[i]
                    holders == {s \in 1..Len(layout.sections) :
                                    \E j \in 1..Len(layout.sections[s].fields_list) :
                                        layout.sections[s].fields_list[j].oid = f.oid}
                IN holders = {f.section}

\* C37: replace_field(fieldname, df) puts the new control at the place of
\* the one registered under fieldname, in the layout's list and in its
\* section's list; the old control is gone, the list holds one node per
\* fieldname, every other entry is as it was
C37_ReplaceInPlace ==
    [][(hist'.op = "replace" /\ hist'.reps = hist.reps + 1
            /\ layout.fields_dict[hist'.name].kind = "control") =>
        LET old == layout.fields_dict[hist'.name]
            swapped(list) ==
                [k \in 1..Len(list) |->
                    IF list[k].oid = old.oid THEN layout'.fields_list[
                        CHOOSE x \in 1..Len(layout'.fields_list) :
                            layout'.fields_list[x].oid = layout.noid]
                    ELSE list[k]]
        IN /\ \E x \in 1..Len(layout'.fields_list) :
                    layout'.fields_list[x].oid = layout.noid
           /\ layout'.fields_list = swapped(layout.fields_list)
           /\ \A x, y \in 1..Len(layout'.fields_list) :
                DfAt(layout', layout'.fields_list[x].df).fieldname
                    = DfAt(layout', layout'.fields_list[y].df).fieldname => x = y
           /\ \A s \in 1..Len(layout.sections) :
                layout'.sections[s].fields_list
                    = swapped(layout.sections[s].fields_list)]_vars

---------------------------------------------------------------------------
(* SpecTab: the tab navigator.  T is the navigator's view of the form:     *)
(*   T.fields     the fields_list of the form's layout; a node carries its *)
(*                fieldname, fieldtype, the snapshot of is_visible and,    *)
(*                for a Table, the number of rows of its grid              *)
(*   T.rowfields  the fields_list of the layout of an open grid row        *)
(*   T.open       the open grid row: its table's fieldname and its idx     *)
(*   T.focus      where the focus is: scope "top" or "row" with the        *)
(*                fieldname, "grid" (inside the row just opened of the     *)
(*                table named), "primary" (the primary button) or "none"   *)
(*   T.call       the last call of handle_tab                              *)

\* frappe.model.no_value_type
InNoValueType(ft) ==
    ft \in {"Section Break", "Column Break", "HTML", "Table", "Button",
            "Image", "Fold", "Heading"}

\* the control has an editor (field.editor)
HasEditor(ft) == ft = "Text Editor"

\* the control has an input element (field.$input)
HasInput(ft) == ft \notin {"HTML", "Heading", "Image", "Text Editor"}

NoRow == [tbl |-> "", idx |-> 0]

NoFocus == [scope |-> "none", name |-> ""]

Primary == [scope |-> "primary", name |-> ""]

\* is_visible that takes every field for visible
\* (a variant C9 has to tell from is_visible)
is_visible_any(field) == TRUE

\* Layout.is_visible: disp_status is "Write" and the wrapper is visible
is_visible(field) == field.visible

TableAt(T, name) == CHOOSE i \in 1..Len(T.fields) : T.fields[i].fieldname = name

\* Layout.set_focus
set_focus(T, field, scope) ==
    IF field.fieldtype = "Table"
    THEN IF field.rows = 0
         THEN [T EXCEPT !.fields[TableAt(T, field.fieldname)].rows = 1]
         ELSE [T EXCEPT !.open = [tbl |-> field.fieldname, idx |-> 1],
                        !.focus = [scope |-> "grid", name |-> field.fieldname]]
    ELSE IF HasEditor(field.fieldtype) \/ HasInput(field.fieldtype)
         THEN [T EXCEPT !.focus = [scope |-> scope, name |-> field.fieldname]]
         ELSE T

\* the Table taken for a single stop, handed to set_focus
\* (a variant C23 has to tell from EnterTable)
EnterTable_as_stop(T, field) == set_focus(T, field, "top")

\* the Table branch of focus_on_next_field: add a row to an empty grid,
\* show the form of the first row
EnterTable(T, field) ==
    [T EXCEPT !.fields[TableAt(T, field.fieldname)].rows =
                    IF field.rows = 0 THEN 1 ELSE @,
              !.open = [tbl |-> field.fieldname, idx |-> 1],
              !.focus = [scope |-> "grid", name |-> field.fieldname]]

\* Layout.focus_on_next_field(start_idx, fields), from the node after i
RECURSIVE focus_on_next_field(_, _, _, _)
focus_on_next_field(T, fields, i, scope) ==
    IF i > Len(fields) THEN [T |-> T, focused |-> FALSE]
    ELSE IF is_visible(fields[i]) /\ fields[i].fieldtype = "Table"
         THEN [T |-> EnterTable(T, fields[i]), focused |-> TRUE]
    ELSE IF is_visible(fields[i]) /\ ~InNoValueType(fields[i].fieldtype)
         THEN [T |-> set_focus(T, fields[i], scope), focused |-> TRUE]
    ELSE focus_on_next_field(T, fields, i + 1, scope)

NoNode == [fieldname |-> "", fieldtype |-> "", visible |-> FALSE, rows |-> 0]

\* the loop of handle_tab from index i on; prev is the last visible node
\* seen (NoNode: none yet)
RECURSIVE TabLoop(_, _, _, _, _, _, _)
TabLoop(T, fields, i, prev, fieldname, shift, scope) ==
    IF i > Len(fields) THEN [T |-> T, focused |-> FALSE]
    ELSE LET next == IF is_visible(fields[i]) THEN fields[i] ELSE prev
             fwd == IF i < Len(fields)
                    THEN focus_on_next_field(T, fields, i + 1, scope)
                    ELSE [T |-> T, focused |-> FALSE]
         IN IF fields[i].fieldname # fieldname
            THEN TabLoop(T, fields, i + 1, next, fieldname, shift, scope)
            ELSE IF shift
                 THEN [T |-> IF prev # NoNode THEN set_focus(T, prev, scope)
                             ELSE [T EXCEPT !.focus = Primary],
                       focused |-> FALSE]
            ELSE IF fwd.focused THEN fwd
            ELSE TabLoop(fwd.T, fields, i + 1, next, fieldname, shift, scope)

\* handle_tab when doctype is the layout's own: the loop, then "End of tab
\* navigation"
HandleTop(T, fieldname, shift) ==
    LET r == TabLoop(T, T.fields, 1, NoNode, fieldname, shift, "top")
    IN IF ~r.focused /\ ~shift THEN [r.T EXCEPT !.focus = Primary] ELSE r.T

\* HandleGrid that goes from the last row back to the first
\* (a variant C40 has to tell from HandleGrid)
HandleGrid_wrap(T, fieldname, shift) ==
    IF T.open = NoRow THEN T
    ELSE LET r == TabLoop(T, T.rowfields, 1, NoNode, fieldname, shift, "row")
             grid == r.T.fields[TableAt(r.T, T.open.tbl)]
         IN IF r.focused THEN r.T
            ELSE [r.T EXCEPT !.open.idx = IF @ = grid.rows THEN 1 ELSE @ + 1,
                             !.focus = [scope |-> "grid", name |-> T.open.tbl]]

\* HandleGrid that closes the open row whichever it is
\* (a variant C24 has to tell from HandleGrid)
HandleGrid_close(T, fieldname, shift) ==
    IF T.open = NoRow THEN T
    ELSE LET r == TabLoop(T, T.rowfields, 1, NoNode, fieldname, shift, "row")
         IN IF r.focused THEN r.T
            ELSE HandleTop([r.T EXCEPT !.open = NoRow], T.open.tbl, FALSE)

\* handle_tab when doctype is not the layout's own: the fields are those
\* of the open grid row; after the loop, the last row is closed and the
\* form's layout handles a forward tab from the table field, any other
\* row gives way to the next row
HandleGrid(T, fieldname, shift) ==
    IF T.open = NoRow THEN T
    ELSE LET r == TabLoop(T, T.rowfields, 1, NoNode, fieldname, shift, "row")
             grid == r.T.fields[TableAt(r.T, T.open.tbl)]
         IN IF r.focused THEN r.T
            ELSE IF T.open.idx = grid.rows
                 THEN HandleTop([r.T EXCEPT !.open = NoRow], T.open.tbl, FALSE)
                 ELSE [r.T EXCEPT !.open.idx = @ + 1,
                                  !.focus = [scope |-> "grid", name |-> T.open.tbl]]

\* Layout.handle_tab(doctype, fieldname, shift); own says doctype == me.doctype
handle_tab(T, own, fieldname, shift) ==
    IF own THEN HandleTop(T, fieldname, shift) ELSE HandleGrid(T, fieldname, shift)

\* a node of the form: hidden, or visible as a Data, Button or Table field
TabNode(name, kind, rows) ==
    [fieldname |-> name,
     fieldtype |-> IF kind = "hidden" THEN "Data" ELSE kind,
     visible |-> kind # "hidden",
     rows |-> IF kind = "Table" THEN rows ELSE 0]

TabKinds == {"hidden", "Data", "Button", "Table"}

RowNames == <<"r1", "r2">>

TabLists == UNION {[1..n -> TabKinds] : n \in 0..MaxTab}

RowLists == UNION {[1..n -> {"hidden", "Data"}] : n \in 0..Len(RowNames)}

InitTab ==
    /\ \E q \in TabLists, rq \in RowLists, rows \in 0..MaxRows :
        tab = [fields |-> [i \in 1..Len(q) |-> TabNode(Names[i], q[i], rows)],
               rowfields |-> [i \in 1..Len(rq) |-> TabNode(RowNames[i], rq[i], 0)],
               open |-> NoRow, focus |-> NoFocus,
               call |-> [own |-> TRUE, fieldname |-> "", shift |-> FALSE]]
    /\ layout = NewLayout(<<>>, FALSE)
    /\ owner = "frm"
    /\ doc = NoDoc
    /\ hist = [op |-> "init"]

\* a tab key pressed in the input of a field of the form
TabTop(fieldname, shift) ==
    /\ tab' = [handle_tab(tab, TRUE, fieldname, shift) EXCEPT
                !.call = [own |-> TRUE, fieldname |-> fieldname, shift |-> shift]]
    /\ UNCHANGED <<layout, doc, owner, hist>>

\* a tab key pressed in the input of a field of the open grid row
TabGrid(fieldname, shift) ==
    /\ tab.open # NoRow
    /\ tab' = [handle_tab(tab, FALSE, fieldname, shift) EXCEPT
                !.call = [own |-> FALSE, fieldname |-> fieldname, shift |-> shift]]
    /\ UNCHANGED <<layout, doc, owner, hist>>

\* setup_tabbing: the key is pressed in a control that is on screen
NextTab ==
    \/ \E i \in 1..Len(tab.fields), shift \in BOOLEAN :
            /\ is_visible(tab.fields[i])
            /\ TabTop(tab.fields[i].fieldname, shift)
    \/ \E i \in 1..Len(tab.rowfields), shift \in BOOLEAN :
            /\ is_visible(tab.rowfields[i])
            /\ TabGrid(tab.rowfields[i].fieldname, shift)

SpecTab == InitTab /\ [][NextTab]_vars

---------------------------------------------------------------------------
(* Claims about the tab navigator (SpecTab).                               *)

\* the step is the call handle_tab(own doctype, fieldname of fields[i], shift)
TabCall(own, fields, i, shift) ==
    tab'.call = [own |-> own, fieldname |-> fields[i].fieldname, shift |-> shift]

\* the focus went to the node: into its input, or into its grid for a Table
FocusOn(T, node) ==
    T.focus.name = node.fieldname /\ T.focus.scope \in {"top", "row", "grid"}

\* eligible as the claims define it: status Write and rendered
Eligible(node) == node.visible

\* eligible and a stop of the forward scan: a Table or a field with a value
ForwardStop(node) ==
    node.visible /\ (node.fieldtype = "Table" \/ ~InNoValueType(node.fieldtype))

\* C9 as claimed: a forward tab from X in the top-level scope focuses the
\* first eligible field after X, or the primary action when there is none.
C9_ForwardFirstEligible ==
    [][\A i \in 1..Len(tab.fields) :
        TabCall(TRUE, tab.fields, i, FALSE) =>
            LET after == {j \in (i + 1)..Len(tab.fields) : Eligible(tab.fields[j])}
            IN IF after = {} THEN tab'.focus = Primary
               ELSE FocusOn(tab', tab.fields[CHOOSE j \in after :
                                                \A x \in after : j <= x])]_vars

\* C9 amended: a forward tab from X in the top-level scope focuses the
\* first field after X that is eligible and is a Table or a field that
\* holds a value (eligible fields of a no-value type are skipped like
\* ineligible ones), or the primary action when there is none.
C9_ForwardFirstStop ==
    [][\A i \in 1..Len(tab.fields) :
        TabCall(TRUE, tab.fields, i, FALSE) =>
            LET after == {j \in (i + 1)..Len(tab.fields) : ForwardStop(tab.fields[j])}
            IN IF after = {} THEN tab'.focus = Primary
               ELSE FocusOn(tab', tab.fields[CHOOSE j \in after :
                                                \A x \in after : j <= x])]_vars

\* with [A, B, C] and B hidden, the forward tab from A has focused C
C9_Witness ==
    /\ Len(tab.fields) = 3
    /\ tab.fields[1].visible /\ ~tab.fields[2].visible /\ tab.fields[3].visible
    /\ tab.fields[3].fieldtype = "Data"
    /\ tab.call = [own |-> TRUE, fieldname |-> tab.fields[1].fieldname, shift |-> FALSE]
    /\ tab.focus = [scope |-> "top", name |-> tab.fields[3].fieldname]

\* the backward tab reached the node: the focus went to it, or the node is
\* a Table with an empty grid and got its first row
BackwardOn(T, node) ==
    \/ FocusOn(T, node)
    \/ /\ node.fieldtype = "Table" /\ node.rows = 0
       /\ T.fields[TableAt(T, node.fieldname)].rows = 1

\* the target of a backward tab from fields[i]: the last eligible node
\* before it
BackwardKept(T, fields, i) ==
    LET before == {j \in 1..(i - 1) : Eligible(fields[j])}
    IN IF before = {} THEN T.focus = Primary
       ELSE BackwardOn(T, fields[CHOOSE j \in before : \A x \in before : j >= x])

\* C10: a backward tab from X focuses the last eligible field before X, or
\* the primary action when there is none; in the form's scope and in the
\* scope of an open grid row.
C10_BackwardLastEligible ==
    [][/\ \A i \in 1..Len(tab.fields) :
            TabCall(TRUE, tab.fields, i, TRUE) => BackwardKept(tab', tab.fields, i)
       /\ \A i \in 1..Len(tab.rowfields) :
            (tab.open # NoRow /\ TabCall(FALSE, tab.rowfields, i, TRUE))
                => BackwardKept(tab', tab.rowfields, i)]_vars

\* the first stop of a forward scan of the form's fields after index i
\* (0: none)
FirstStop(i) ==
    LET after == {j \in (i + 1)..Len(tab.fields) : ForwardStop(tab.fields[j])}
    IN IF after = {} THEN 0 ELSE CHOOSE j \in after : \A x \in after : j <= x

\* the table fields[j] was entered: it has a row, its first row is open
Entered(T, j) ==
    /\ T.fields[j].rows >= 1
    /\ T.open = [tbl |-> T.fields[j].fieldname, idx |-> 1]
    /\ T.focus = [scope |-> "grid", name |-> T.fields[j].fieldname]

\* C23: when the field a forward tab finds is a Table, the table is
\* entered: an empty grid gets a row, a grid with rows keeps them, and the
\* first row is opened
C23_ForwardEntersTable ==
    [][\A i \in 1..Len(tab.fields) :
        (TabCall(TRUE, tab.fields, i, FALSE) /\ FirstStop(i) # 0
            /\ tab.fields[FirstStop(i)].fieldtype = "Table") =>
                /\ Entered(tab', FirstStop(i))
                /\ tab'.fields[FirstStop(i)].rows =
                        IF tab.fields[FirstStop(i)].rows = 0 THEN 1
                        ELSE tab.fields[FirstStop(i)].rows]_vars

\* two tables started empty; the forward tab has given the first its row
\* and opened it
C23_Witness ==
    /\ Len(tab.fields) = 3
    /\ tab.fields[2].fieldtype = "Table" /\ tab.fields[3].fieldtype = "Table"
    /\ tab.fields[2].visible /\ tab.fields[3].visible
    /\ tab.call = [own |-> TRUE, fieldname |-> tab.fields[1].fieldname, shift |-> FALSE]
    /\ tab.fields[3].rows = 0
    /\ tab.fields[2].rows = 1 /\ Entered(tab, 2)

\* C24: a forward tab in an open grid row with no eligible field after the
\* one it is pressed in opens the next row when the row is not the last;
\* from the last row it closes the row and scans the form's fields from
\* the one after the table
C24_ForwardLeavesRow ==
    [][\A i \in 1..Len(tab.rowfields) :
        (tab.open # NoRow /\ TabCall(FALSE, tab.rowfields, i, FALSE)
            /\ \A j \in (i + 1)..Len(tab.rowfields) : ~Eligible(tab.rowfields[j])) =>
          LET t == TableAt(tab, tab.open.tbl)
          IN IF tab.open.idx # tab.fields[t].rows
             THEN tab'.open = [tbl |-> tab.open.tbl, idx |-> tab.open.idx + 1]
             ELSE IF FirstStop(t) = 0
                  THEN tab'.open = NoRow /\ tab'.focus = Primary
             ELSE IF tab.fields[FirstStop(t)].fieldtype = "Table"
                  THEN Entered(tab', FirstStop(t))
             ELSE /\ tab'.open = NoRow
                  /\ tab'.focus = [scope |-> "top",
                                   name |-> tab.fields[FirstStop(t)].fieldname]]_vars

\* the forward tab in the last field of the first of two rows has opened
\* the second row
C24_Witness ==
    /\ tab.open # NoRow /\ tab.open.idx = 2
    /\ tab.fields[TableAt(tab, tab.open.tbl)].rows = 2
    /\ Len(tab.rowfields) > 0
    /\ tab.call = [own |-> FALSE,
                   fieldname |-> tab.rowfields[Len(tab.rowfields)].fieldname,
                   shift |-> FALSE]

\* C34: for the snapshot of the form's fields, a field that has a field
\* on screen on either side is the target of some forward tab exactly when
\* it is the target of some backward tab
C34_SameTargets ==
    LET T0 == [tab EXCEPT !.focus = NoFocus, !.open = NoRow]
        OnScreen(S) == {i \in S : is_visible(tab.fields[i])}
        Forward(j) ==
            \E i \in OnScreen(1..(j - 1)) :
                FocusOn(HandleTop(T0, tab.fields[i].fieldname, FALSE), tab.fields[j])
        Backward(j) ==
            \E i \in OnScreen((j + 1)..Len(tab.fields)) :
                BackwardOn(HandleTop(T0, tab.fields[i].fieldname, TRUE), tab.fields[j])
    IN \A j \in 1..Len(tab.fields) :
        (OnScreen(1..(j - 1)) # {} /\ OnScreen((j + 1)..Len(tab.fields)) # {})
            => (Forward(j) <=> Backward(j))

\* C38: a backward tab from a field of an open grid row focuses the last
\* eligible field of the row before it, or the primary action control, and
\* does nothing else: the row stays open, no other row is opened, the
\* form's own fields are not scanned
C38_BackwardStaysInRow ==
    [][\A i \in 1..Len(tab.rowfields) :
        (tab.open # NoRow /\ TabCall(FALSE, tab.rowfields, i, TRUE)) =>
            LET before == {j \in 1..(i - 1) : Eligible(tab.rowfields[j])}
            IN /\ tab'.open = tab.open
               /\ tab'.fields = tab.fields
               /\ tab'.focus =
                    IF before = {} THEN Primary
                    ELSE [scope |-> "row",
                          name |-> tab.rowfields[CHOOSE j \in before :
                                        \A x \in before : j >= x].fieldname]]_vars

---------------------------------------------------------------------------
(* SpecEval: the dependency evaluator applied to every shape of            *)
(* expression, over bounded documents, owners and parent documents.  Here  *)
(* layout holds what the evaluator reads of the Layout object besides      *)
(* this.doc: values, what get_values(true) of a dialog returns (NoDoc for  *)
(* a layout without get_values), and frmdoc, the document of the owning    *)
(* form.                                                                   *)

EvalValues == {Null, "", "0", "false", "v", "[]", "[x]"}

\* a document with or without the field a; istable is 1 on a child-table
\* DocType and on the rows that carry the flag
EvalDocs ==
    UNION {{d \in [K -> EvalValues \cup {"1"}] :
                /\ d["istable"] \in {"0", "1"}
                /\ "a" \in K => d["a"] \in EvalValues} :
           K \in {{"a", "istable"}, {"istable"}}}

EvalGetValues == {NoDoc, [a |-> "v", istable |-> "1"], [a |-> Null, istable |-> "0"]}

EvalFormDocs == {[istable |-> "0"], [istable |-> "1"]}

EvalExprs ==
    {Plain("a"), Plain("zz"), Fn("yes"), Fn("no"), Bool("true"), Bool("false"),
     Function("a", "v"), EvalEq("a", "v"), EvalLen("a"),
     Submittable(EvalEq("a", "v")), Submittable(EvalLen("a")), EvalNoParent}

InitEval ==
    /\ doc \in EvalDocs \cup {NoDoc}
    /\ owner \in Owners
    /\ layout \in {[values |-> v, frmdoc |-> f] :
                        v \in IF owner = "dialog" THEN EvalGetValues ELSE {NoDoc},
                        f \in IF owner = "frm" THEN EvalFormDocs ELSE {NoDoc}}
    /\ hist = [op |-> "init", e |-> Absent, r |-> Outcome(FALSE)]
    /\ tab = NoTab

EvalCtx ==
    [doc |-> doc, owner |-> owner, values |-> layout.values,
     frmdoc |-> layout.frmdoc]

\* a call of evaluate_depends_on_value(expression)
Evaluate(e) ==
    /\ hist' = [op |-> "eval", e |-> e, r |-> evaluate_depends_on_value(EvalCtx, e)]
    /\ UNCHANGED <<layout, doc, owner, tab>>

NextEval == \E e \in EvalExprs : Evaluate(e)

SpecEval == InitEval /\ [][NextEval]_vars

---------------------------------------------------------------------------
(* SpecEval: claims.                                                       *)

\* the document the evaluator reads
EvalDoc == IF doc # NoDoc THEN doc ELSE layout.values

PlainCall == hist.op = "eval" /\ hist.e.kind = "fieldname" /\ EvalDoc # NoDoc

\* C16: for a plain fieldname the evaluator returns true exactly when the
\* document's value of that field is a non-empty array or a truthy value
\* that is not an array; a fieldname the document does not hold gives
\* false; no error is raised
C16_PlainFieldname ==
    PlainCall =>
        /\ ~hist.r.threw
        /\ hist.r.out <=> /\ hist.e.key \in DOMAIN EvalDoc
                          /\ EvalDoc[hist.e.key] \in {"[x]", "v", "1"}

C16_Witness ==
    /\ PlainCall /\ hist.e.key = "a" /\ "a" \in DOMAIN EvalDoc
    /\ EvalDoc["a"] = "[]" /\ ~hist.r.out

\* C17: an "fn:" expression evaluated by a layout without a form gives the
\* outcome false and raises no error, whatever the document
C17_FnWithoutForm ==
    (hist.op = "eval" /\ hist.e.kind = "fn" /\ owner # "frm")
        => (~hist.r.threw /\ ~hist.r.out)

C17_Witness ==
    /\ hist.op = "eval" /\ hist.e = Fn("yes") /\ owner = "dialog"
    /\ doc # NoDoc /\ ~hist.r.threw /\ ~hist.r.out

\* an eval: text that mentions is_submittable and evaluates to a value
SubCall ==
    /\ hist.op = "eval" /\ hist.e.kind \in {"eval", "eval_len"} /\ hist.e.sub
    /\ EvalDoc # NoDoc /\ ~Throws(hist.e, EvalDoc)

\* what the text itself evaluates to
OwnValue ==
    IF hist.e.kind = "eval" THEN DocGet(EvalDoc, hist.e.key) = hist.e.val
    ELSE DocGet(EvalDoc, hist.e.key) \in {"v", "[x]"}

IsTable(d) == d # NoDoc /\ DocGet(d, "istable") = "1"

\* C18 as stated: for an eval: text that mentions is_submittable, the
\* outcome is true when the evaluated document has istable true, and the
\* text's own value otherwise
C18_SubmittableInRow ==
    SubCall => /\ ~hist.r.threw
               /\ hist.r.out = (IF IsTable(EvalDoc) THEN TRUE ELSE OwnValue)

\* the parent binding: the owning form's document, or this.doc without a form
ParentDoc == IF owner = "frm" THEN layout.frmdoc ELSE doc

\* C18: for an eval: text that mentions is_submittable, the outcome is true
\* when the parent binding has istable true, and the text's own value
\* otherwise
C18_SubmittableUnderTableParent ==
    SubCall => /\ ~hist.r.threw
               /\ hist.r.out = (IF IsTable(ParentDoc) THEN TRUE ELSE OwnValue)

C18_Witness ==
    /\ SubCall /\ owner = "frm" /\ IsTable(layout.frmdoc) /\ ~IsTable(doc)
    /\ doc # NoDoc /\ ~OwnValue /\ hist.r.out

\* C31: an eval: text evaluated by a layout without an owning form sees a
\* null parent binding, so "!parent" is true there; with an owning form
\* the binding is a document and "!parent" is false
C31_ParentNullWithoutForm ==
    (hist.op = "eval" /\ hist.e = EvalNoParent /\ EvalDoc # NoDoc)
        => /\ ~hist.r.threw
           /\ hist.r.out <=> owner # "frm"

---------------------------------------------------------------------------
(* SpecPass: one refresh pass, step by step.  hist.pc is the position of   *)
(* the pass in Layout.refresh ("idle" between passes), hist.i the index of *)
(* the loop of attach_doc_and_docfields, hist.steps the steps the pass has *)
(* run, hist.bound the document each node of fields_list is bound to       *)
(* (fieldobj.doc), hist.old the document bound before the pass and         *)
(* hist.res how the last pass ended.                                       *)

PassNames == {"a", "c", "t", "bad"}

PassLists ==
    UNION {{q \in [1..n -> PassNames] : Injective(q)} : n \in 0..MaxFields}

PassDocs == {d \in Docs : d["status"] = "Open" /\ d["a"] \in {Null, "v"}}

\* the document d as a row of the sub-table items of the document P1
RowOf(d) == [parent |-> "P1", parentfield |-> "items", name |-> "r1"] @@ d

RowDocs == {RowOf(d) : d \in PassDocs}

Bind_all(bound, i, d) == [j \in DOMAIN bound |-> d]

\* fieldobj.doc = me.doc, of the node at index i
Bind(bound, i, d) == [bound EXCEPT ![i] = d]

NextStep_collapse_first(pc, o) ==
    CASE pc = "attach" -> IF o = "frm" THEN "trigger" ELSE "dependency"
      [] pc = "trigger" -> "dependency"
      [] pc = "dependency" -> IF o = "frm" THEN "collapse" ELSE "sections"
      [] pc = "collapse" -> "sections"
      [] OTHER -> "idle"

\* the statement of Layout.refresh that follows the step pc
NextStep(pc, o) ==
    CASE pc = "attach" -> IF o = "frm" THEN "trigger" ELSE "dependency"
      [] pc = "trigger" -> "dependency"
      [] pc = "dependency" -> "sections"
      [] pc = "sections" -> IF o = "frm" THEN "collapse" ELSE "idle"
      [] OTHER -> "idle"

InitPass ==
    /\ layout \in {[make(Descs(q), FALSE) EXCEPT !.form.raises = b] :
                        q \in PassLists, b \in BOOLEAN}
    /\ owner \in Owners
    /\ doc = NoDoc
    /\ hist \in {[pc |-> "idle", i |-> 1, steps |-> <<>>, old |-> NoDoc,
                 res |-> "none", row |-> row,
                 bound |-> [j \in 1..Len(layout.fields_list) |-> NoDoc]] :
                    row \in BOOLEAN}
    /\ tab = NoTab

\* refresh(d) up to the call of attach_doc_and_docfields: this.doc = d;
\* hist.row says that the layout is the layout of a sub-table row, which is
\* handed row documents; layout.log starts the log of the pass
PassBegin(d) ==
    /\ hist.pc = "idle"
    /\ InRow(d) = hist.row
    /\ doc' = d
    /\ layout' = [layout EXCEPT !.log = <<>>]
    /\ hist' = [hist EXCEPT
                !.pc = IF Len(layout.fields_list) = 0
                       THEN NextStep("attach", owner) ELSE "attach",
                !.i = 1, !.steps = <<>>, !.old = doc, !.res = "none"]
    /\ UNCHANGED <<owner, tab>>

\* one turn of the loop of attach_doc_and_docfields: the node is bound to
\* this.doc and refreshed
PassAttach ==
    /\ hist.pc = "attach"
    /\ layout' = RefreshNode(layout, layout.fields_list[hist.i])
    /\ hist' = [hist EXCEPT
                !.bound = Bind(@, hist.i, doc),
                !.i = @ + 1,
                !.pc = IF hist.i = Len(layout.fields_list)
                       THEN NextStep("attach", owner) ELSE "attach"]
    /\ UNCHANGED <<doc, owner, tab>>

\* $(this.frm.wrapper).trigger("refresh-fields"): the handlers of the event
\* run here, inside the pass, and see the tree as it is at this point
PassTrigger ==
    /\ hist.pc = "trigger"
    /\ hist' = [hist EXCEPT !.pc = NextStep("trigger", owner)]
    /\ UNCHANGED <<layout, doc, owner, tab>>

\* this.refresh_dependency()
PassDependency ==
    /\ hist.pc = "dependency"
    /\ \E r \in {refresh_dependency(layout, Ctx(doc))} :
          /\ layout' = r.L
          /\ hist' = [hist EXCEPT
                !.steps = Append(@, "dependency"),
                !.pc = IF r.threw THEN "idle" ELSE NextStep("dependency", owner),
                !.res = IF r.threw THEN "threw" ELSE "none"]
    /\ UNCHANGED <<doc, owner, tab>>

\* this.refresh_sections()
PassSections ==
    /\ hist.pc = "sections"
    /\ layout' = refresh_sections(layout)
    /\ hist' = [hist EXCEPT
                !.steps = Append(@, "sections"),
                !.pc = NextStep("sections", owner),
                !.res = IF NextStep("sections", owner) = "idle" THEN "ok"
                        ELSE "none"]
    /\ UNCHANGED <<doc, owner, tab>>

\* this.refresh_section_collapse()
PassCollapse ==
    /\ hist.pc = "collapse"
    /\ \E r \in {refresh_section_collapse(layout, Ctx(doc))} :
          /\ layout' = r.L
          /\ hist' = [hist EXCEPT
                !.steps = Append(@, "collapse"),
                !.pc = IF r.threw THEN "idle" ELSE NextStep("collapse", owner),
                !.res = IF r.threw THEN "threw"
                        ELSE IF NextStep("collapse", owner) = "idle" THEN "ok"
                        ELSE "none"]
    /\ UNCHANGED <<doc, owner, tab>>

NextPass ==
    \/ \E d \in PassDocs \cup RowDocs : PassBegin(d)
    \/ PassAttach
    \/ PassTrigger
    \/ PassDependency
    \/ PassSections
    \/ PassCollapse

SpecPass == InitPass /\ [][NextPass]_vars

---------------------------------------------------------------------------
(* SpecPass: claims.                                                       *)

Ran(x) == \E k \in 1..Len(hist.steps) : hist.steps[k] = x

Pos(x) == CHOOSE k \in 1..Len(hist.steps) : hist.steps[k] = x

\* the pass ran x, and before it y
After(x, y) == Ran(x) => (Ran(y) /\ Pos(y) < Pos(x))

\* C19 as stated: the dependency step runs first, then the section
\* collapse step, and only then the aggregate step of the sections
C19_CollapseBeforeAggregate ==
    /\ After("collapse", "dependency")
    /\ After("sections", "dependency")
    /\ (Ran("sections") /\ Ran("collapse")) => Pos("collapse") < Pos("sections")

\* C19: the dependency step runs first, then the aggregate step of the
\* sections, and only then, in a form, the section collapse step, which
\* sees the required flags this pass has set
C19_AggregateBeforeCollapse ==
    /\ After("sections", "dependency")
    /\ After("collapse", "sections")
    /\ Ran("collapse") => owner = "frm"
    /\ (hist.pc = "idle" /\ hist.res = "ok") =>
          /\ hist.steps = IF owner = "frm"
                          THEN <<"dependency", "sections", "collapse">>
                          ELSE <<"dependency", "sections">>
          /\ owner = "frm" =>
                \A s \in Sections :
                    (layout.sections[s].head /\ SecDf(s).collapsible) =>
                        (layout.sections[s].collapsed <=>
                            (DeclaredCollapsed(s, doc)
                                /\ ~MissingMandatory(layout, s, doc)))

C19_Witness ==
    /\ hist.pc = "idle" /\ hist.res = "ok" /\ owner = "frm"
    /\ hist.steps = <<"dependency", "sections", "collapse">>
    /\ \E s \in Sections :
          /\ layout.sections[s].head /\ SecDf(s).collapsible
          /\ ~layout.sections[s].collapsed
          /\ MissingMandatory(layout, s, doc)
          /\ \E j \in 1..Len(layout.sections[s].fields_list) :
                IsSet(DfAt(layout, layout.sections[s].fields_list[j].df).mandatory_depends_on)

Controls == {j \in Nodes : layout.fields_list[j].kind = "control"}

\* C20 as stated: in a pass given a new document, when a control is
\* refreshed, and when the dependency step starts, every control is bound
\* to the new document
C20_AllBoundBeforeRefresh ==
    [][/\ (hist.pc = "attach" /\ hist.i \in Controls
                /\ hist.old \notin {NoDoc, doc}) =>
              \A j \in Controls : hist'.bound[j] = doc
       /\ hist.pc = "dependency" =>
              \A j \in Controls : hist.bound[j] = doc]_vars

\* C20: when a control is refreshed it is bound to the document of the
\* pass, as the nodes before it are, while the nodes after it keep the
\* document bound before the pass; when the dependency step starts every
\* node is bound to the document of the pass
C20_BoundBeforeOwnRefresh ==
    [][/\ hist.pc = "attach" =>
              \A j \in Nodes :
                  /\ j <= hist.i => hist'.bound[j] = doc
                  /\ j > hist.i => hist'.bound[j] = hist.old
       /\ hist.pc = "dependency" =>
              \A j \in Nodes : hist.bound[j] = doc]_vars

C20_Witness ==
    /\ hist.pc = "attach" /\ hist.i = 2 /\ Controls = {1, 2}
    /\ hist.old # NoDoc /\ hist.old # doc
    /\ hist.bound[1] = doc /\ hist.bound[2] = hist.old

\* how often the dependency step under way has refreshed control i
Emitted(i) ==
    Cardinality({k \in 1..Len(layout'.log) :
                    layout'.log[k] = layout.fields_list[i].oid})
        - Cardinality({k \in 1..Len(layout.log) :
                    layout.log[k] = layout.fields_list[i].oid})

\* C21, for the fields of a sub-table row: the dependency step refreshes a
\* control only when its computed visible, required or read_only value
\* differs from the one it had; over unchanged data it refreshes none
C21_RefreshOnlyOnChange ==
    [][(hist.pc = "dependency" /\ hist.row) =>
            \A i \in Controls :
                Emitted(i) > 0 => DepState(layout', i) # DepState(layout, i)]_vars

\* C25: a handler that runs while refresh() is executing (here a handler of
\* the event refresh-fields) does not see a partially updated tree: the
\* dependency, aggregate and collapse state it sees is the state the pass
\* leaves
C25_PassAtomic ==
    hist.pc = "trigger" =>
        \A L \in {refresh(layout, Ctx(doc)).L} :
            /\ \A i \in Nodes : DepState(L, i) = DepState(layout, i)
            /\ \A s \in Sections :
                  /\ L.sections[s].aggregate = layout.sections[s].aggregate
                  /\ L.sections[s].collapsed = layout.sections[s].collapsed

\* the entry of the per-row field metadata a push makes for node i
RowEntry(i, property, value) ==
    [parentfield |-> doc["parentfield"], parent |-> doc["parent"],
     fieldname |-> NodeDf(i).fieldname, docname |-> doc["name"],
     property |-> property, value |-> value]

\* C26: in the layout of a sub-table row owned by a form, the dependency
\* step pushes every mandatory and read-only dependency it evaluates to the
\* form's per-row field metadata, addressed by parent field, parent
\* document, fieldname and row name; the property setter sees
\* setting_dependency true in every such push and false otherwise, and the
\* flag is false again after the step
C26_RowPushFlagged ==
    [][(hist.pc = "dependency" /\ hist.row /\ owner = "frm"
            /\ hist'.res # "threw") =>
          /\ \A i \in Nodes :
                /\ IsSet(NodeDf(i).mandatory_depends_on) =>
                      RowEntry(i, "reqd", evaluate_depends_on_value(Ctx(doc),
                            NodeDf(i).mandatory_depends_on).out)
                        \in layout'.form.rows
                /\ IsSet(NodeDf(i).read_only_depends_on) =>
                      RowEntry(i, "read_only", evaluate_depends_on_value(Ctx(doc),
                            NodeDf(i).read_only_depends_on).out)
                        \in layout'.form.rows
          /\ layout'.form.seen \subseteq {<<"row", TRUE>>, <<"field", FALSE>>}
          /\ ~layout'.form.setting_dependency]_vars

C26_Witness ==
    /\ hist.pc = "sections" /\ hist.row /\ owner = "frm" /\ InRow(doc)
    /\ <<"row", TRUE>> \in layout.form.seen
    /\ \E i \in Nodes : RowEntry(i, "reqd", TRUE) \in layout.form.rows
    /\ ~layout.form.setting_dependency

\* C39: after a refresh pass has ended, normally or by an error raised by
\* an expression or by the property setter, setting_dependency is false
C39_FlagClearedAfterPass ==
    (hist.pc = "idle" /\ hist.res \in {"ok", "threw"}) =>
        ~layout.form.setting_dependency

\* C33: after a refresh pass a section is flagged empty exactly when none
\* of its controls is displayed in write status; a section whose displayed
\* controls are all in read status is flagged empty
C33_EmptyIffNoWritable ==
    (hist.pc = "idle" /\ hist.res = "ok") =>
        \A s \in 1..Len(layout.sections) :
            layout.sections[s].aggregate = "empty-section" <=>
                ~\E j \in 1..Len(layout.sections[s].fields_list) :
                    DispStatus(DfAt(layout, layout.sections[s].fields_list[j].df))
                        = "Write"

---------------------------------------------------------------------------
(* SpecEdit: refresh passes over layouts whose sections and fields carry   *)
(* depends_on, with the owner editing a descriptor between passes          *)
(* (df.depends_on removed).                                                *)

EditNames == {"a", "b", "h"}

EditLists ==
    UNION {{q \in [1..n -> EditNames] : Injective(q)} : n \in 0..MaxFields}

EditDocs == {d \in Docs : d["type"] = "DocType" /\ d["a"] \in {Null, "v"}}

InitEdit ==
    /\ layout \in {make(Descs(q), FALSE) : q \in EditLists}
    /\ owner \in Owners
    /\ doc = NoDoc
    /\ hist = [op |-> "init", res |-> "none", chg |-> "none", rep |-> FALSE,
               eff |-> {}, user |-> [s \in 1..Len(layout.sections) |-> "none"]]
    /\ tab = NoTab

\* the owner removes the depends_on of the descriptor of node i
Unset(i) ==
    /\ IsSet(DfAt(layout, layout.fields_list[i].df).depends_on)
    /\ layout' = [layout EXCEPT !.dfs[layout.fields_list[i].df].depends_on = Absent]
    /\ hist' = [hist EXCEPT !.op = "edit", !.rep = FALSE]
    /\ UNCHANGED <<doc, owner, tab>>

NextEdit ==
    \/ \E d \in EditDocs : Refresh(d)
    \/ \E i \in 1..Len(layout.fields_list) : Unset(i)

SpecEdit == InitEdit /\ [][NextEdit]_vars

---------------------------------------------------------------------------
(* SpecEdit: claims.                                                       *)

\* section s of L has a control that is not hidden
HasVisible(L, s) ==
    \E j \in 1..Len(L.sections[s].fields_list) :
        ~HideControl(DfAt(L, L.sections[s].fields_list[j].df))

\* C27: after a refresh pass every section, hidden or not, is flagged
\* empty exactly when none of its controls is visible
C27_EmptyIffNoVisible ==
    (hist.op = "refresh" /\ hist.res = "ok") =>
        \A s \in Sections :
            layout.sections[s].aggregate = "empty-section" <=> ~HasVisible(layout, s)

\* C30: after a refresh pass a field whose descriptor has no depends_on is
\* not hidden due to dependency, also when the depends_on was removed after
\* it had hidden the field
C30_NoDependsOnNotHidden ==
    (hist.op = "refresh" /\ hist.res = "ok") =>
        \A i \in Nodes :
            ~IsSet(NodeDf(i).depends_on) => ~NodeDf(i).hidden_due_to_dependency

---------------------------------------------------------------------------
(* SpecName: the fields of a doctype layout. make() without opts.fields    *)
(* takes the list from get_doctype_fields, which puts the descriptor of    *)
(* get_new_name_field before the doctype's docfields; the name control's   *)
(* status is what the descriptor's get_status returns. A string of the     *)
(* naming policy is a sequence of characters.                              *)

\* meta.autoname when the doctype sets none
NoAutoname == <<"undefined">>

\* this.frm when the layout has no form
NoFrm == [doctype |-> "undefined", is_new |-> FALSE, autoname |-> NoAutoname]

\* this.doctype_layout when the layout has none
NoDoctypeLayout == <<"undefined">>

\* String.prototype.toLowerCase, character by character
LowerChar(c) ==
    CASE c = "A" -> "a" [] c = "E" -> "e" [] c = "F" -> "f" [] c = "H" -> "h"
      [] c = "M" -> "m" [] c = "N" -> "n" [] c = "O" -> "o" [] c = "P" -> "p"
      [] c = "R" -> "r" [] c = "S" -> "s" [] c = "T" -> "t"
      [] OTHER -> c

toLowerCase(str) == [i \in 1..Len(str) |-> LowerChar(str[i])]

Prompt == <<"p", "r", "o", "m", "p", "t">>
Name == <<"n", "a", "m", "e">>

\* meta.autoname: not set, empty, or a naming policy
Autonames ==
    {NoAutoname, <<>>, Prompt, Name,
     <<"P", "r", "o", "m", "p", "t">>, <<"P", "R", "O", "M", "P", "T">>,
     <<"N", "a", "m", "e">>, <<"n", "a", "M", "E">>,
     <<"h", "a", "s", "h">>, <<"f", "i", "e", "l", "d", ":", "n", "a", "m", "e">>,
     <<"p", "r", "o", "m", "p", "t", "s">>}

\* the forms a layout can belong to
Frms ==
    {NoFrm} \cup [doctype : {"ToDo"}, is_new : BOOLEAN, autoname : Autonames]

\* get_status of the name descriptor, for a control whose frm is frm
get_status(frm) ==
    IF /\ frm # NoFrm
       /\ frm.is_new
       /\ frm.autoname \notin {NoAutoname, <<>>}
       /\ toLowerCase(frm.autoname) \in {Prompt, Name}
    THEN "Write" ELSE "None"

\* get_new_name_field: reading this.frm.doctype throws when this.frm is
\* not set
get_new_name_field(L) ==
    IF L.frm = NoFrm THEN Thrown
    ELSE Outcome([parent |-> L.frm.doctype, fieldtype |-> "Data",
               fieldname |-> "__newname", reqd |-> "1", hidden |-> "1",
               label |-> "Name", get_status |-> TRUE])

\* a docfield of the doctype
Docfield(fieldname, fieldtype) ==
    [parent |-> "ToDo", fieldtype |-> fieldtype, fieldname |-> fieldname,
     reqd |-> "0", hidden |-> "0", label |-> fieldname, get_status |-> FALSE]

\* frappe.meta.docfield_map[doctype], in the order sort_docfields gives
DocfieldMaps ==
    {<<>>, <<Docfield("a", "Data")>>, <<Docfield("s", "Section Break")>>,
     <<Docfield("a", "Data"), Docfield("b", "Data")>>,
     <<Docfield("s", "Section Break"), Docfield("a", "Data")>>}

\* get_fields_from_layout: the docfields the doctype layout names, each
\* with the label the doctype layout gives it
get_fields_from_layout(L) ==
    [i \in 1..Len(L.doctype_layout) |->
        [(The({f \in {L.docfields[j] : j \in 1..Len(L.docfields)} :
                f.fieldname = L.doctype_layout[i]}))
            EXCEPT !.label = "custom"]]

\* get_doctype_fields
get_doctype_fields(L) ==
    LET n == get_new_name_field(L)
    IN IF n.threw THEN Thrown
       ELSE Outcome(<<n.out>> \o
                 (IF L.doctype_layout # NoDoctypeLayout THEN get_fields_from_layout(L)
                  ELSE L.docfields))

\* the selections of a doctype layout over the docfields ds
Selections(ds) ==
    {NoDoctypeLayout} \cup {<<ds[j].fieldname>> : j \in 1..Len(ds)}
           \cup {[j \in 1..Len(ds) |-> ds[Len(ds) - j + 1].fieldname]}

InitName ==
    /\ layout \in {[frm |-> f, docfields |-> ds, doctype_layout |-> sel,
                    with_dashboard |-> w, fields |-> <<>>,
                    got |-> <<>>, crashed |-> FALSE] :
                        f \in Frms, ds \in DocfieldMaps, w \in BOOLEAN,
                        sel \in UNION {Selections(x) : x \in DocfieldMaps}}
    /\ layout.doctype_layout # NoDoctypeLayout =>
            \A i \in 1..Len(layout.doctype_layout) :
                \E j \in 1..Len(layout.docfields) :
                    layout.docfields[j].fieldname = layout.doctype_layout[i]
    /\ owner = IF layout.frm = NoFrm THEN "none" ELSE "frm"
    /\ doc = NoDoc
    /\ hist = [op |-> "init", status |-> "undefined"]
    /\ tab = NoTab

\* make() of a layout constructed without fields: this.fields is what
\* get_doctype_fields returns, and render's setup_dashboard_section puts a
\* section-break before a list that does not open with one
MakeDoctype ==
    /\ hist.op = "init"
    /\ LET r == get_doctype_fields(layout)
       IN layout' =
            IF r.threw THEN [layout EXCEPT !.crashed = TRUE]
            ELSE [layout EXCEPT
                    !.got = r.out,
                    !.fields =
                        IF layout.with_dashboard
                            /\ r.out[1].fieldtype # "Section Break"
                        THEN <<[fieldtype |-> "Section Break"]>> \o r.out
                        ELSE r.out]
    /\ hist' = [hist EXCEPT !.op = "make"]
    /\ UNCHANGED <<doc, owner, tab>>

\* the name control derives its status: df.get_status(field), the
\* control's frm being the layout's (init_field)
NameStatus ==
    /\ hist.op # "init" /\ ~layout.crashed
    /\ hist' = [op |-> "status", status |-> get_status(layout.frm)]
    /\ UNCHANGED <<layout, doc, owner, tab>>

\* the form's document is saved: it is no longer new
SaveDoc ==
    /\ hist.op # "init" /\ ~layout.crashed
    /\ layout.frm.is_new
    /\ layout' = [layout EXCEPT !.frm.is_new = FALSE]
    /\ hist' = [op |-> "save", status |-> "undefined"]
    /\ UNCHANGED <<doc, owner, tab>>

NextName == MakeDoctype \/ NameStatus \/ SaveDoc

SpecName == InitName /\ [][NextName]_vars

---------------------------------------------------------------------------
(* Claims about the name field (SpecName).                                 *)

\* C28: the name field is the first descriptor of every doctype layout, a
\* layout with no form included, and its status is Write exactly when the
\* form's document is new and the naming policy is prompt or name in any
\* letter case, None otherwise, never Read
C28_NameFieldFirst ==
    /\ hist.op # "init" =>
            /\ ~layout.crashed
            /\ layout.got # <<>>
            /\ layout.got[1].fieldname = "__newname"
    /\ hist.op = "status" =>
            /\ hist.status \in {"Write", "None"}
            /\ hist.status = "Write" <=>
                    /\ layout.frm # NoFrm
                    /\ layout.frm.is_new
                    /\ layout.frm.autoname \in
                        {<<a, b, c, d>> : a \in {"n", "N"}, b \in {"a", "A"},
                                          c \in {"m", "M"}, d \in {"e", "E"}}
                        \cup {<<a, b, c, d, e, f>> :
                                a \in {"p", "P"}, b \in {"r", "R"},
                                c \in {"o", "O"}, d \in {"m", "M"},
                                e \in {"p", "P"}, f \in {"t", "T"}}

---------------------------------------------------------------------------
(* SpecClick: clicks on section heads between refresh passes, over         *)
(* layouts with collapsible and plain sections.  hist.sec is the section   *)
(* of the last click, hist.before whether it was collapsed before that     *)
(* click, hist.n the number of clicks on it in a row (2: two or more).     *)

ClickNames == {"a", "s", "t", "u", "p"}

ClickLists ==
    UNION {{q \in [1..n -> ClickNames] : Injective(q)} : n \in 0..MaxFields}

ClickDocs ==
    {d \in Docs : d["type"] = "DocType" /\ d["a"] \in {Null, "v"}
                    /\ d["status"] \in {"Open", "Closed"}}

InitClick ==
    /\ layout \in {make(Descs(q), FALSE) : q \in ClickLists}
    /\ owner \in Owners
    /\ doc = NoDoc
    /\ hist = [op |-> "init", res |-> "none", chg |-> "none", rep |-> FALSE,
               eff |-> {}, user |-> [s \in 1..Len(layout.sections) |-> "none"],
               sec |-> 0, before |-> FALSE, n |-> 0]
    /\ tab = NoTab

\* a click on the head of section s: make_head binds the handler, which
\* calls collapse(), only when the section has a label and is collapsible
ClickHead(s) ==
    /\ layout.sections[s].head
    /\ DfAt(layout, layout.sections[s].df).collapsible
    /\ layout' = [layout EXCEPT !.sections[s] = toggle(@)]
    /\ hist' = [hist EXCEPT
                !.op = "click", !.rep = FALSE,
                !.user[s] = IF layout.sections[s].collapsed
                            THEN "expanded" ELSE "collapsed",
                !.sec = s, !.before = layout.sections[s].collapsed,
                !.n = IF hist.op = "click" /\ hist.sec = s THEN 2 ELSE 1]
    /\ UNCHANGED <<doc, owner, tab>>

NextClick ==
    \/ \E d \in ClickDocs : Refresh(d)
    \/ \E s \in 1..Len(layout.sections) : ClickHead(s)

SpecClick == InitClick /\ [][NextClick]_vars

---------------------------------------------------------------------------
(* Claims about the section head (SpecClick).                              *)

\* C35: a click on the head of a collapsible section toggles that section
\* and no other, and the second of two clicks in a row restores the state
\* before the first; in every state the head's collapsed marker agrees
\* with the body's hidden state, and a section that is not collapsible is
\* never collapsed
C35_ClickToggles ==
    [][/\ \A s \in 1..Len(layout.sections) :
            (hist'.op = "click" /\ hist'.sec = s) =>
                /\ layout'.sections[s].collapsed = ~layout.sections[s].collapsed
                /\ \A x \in 1..Len(layout.sections) :
                        x # s => layout'.sections[x] = layout.sections[x]
                /\ (hist.op = "click" /\ hist.sec = s) =>
                        layout'.sections[s].collapsed = hist.before
       /\ \A s \in 1..Len(layout'.sections) :
            /\ layout'.sections[s].head_collapsed = layout'.sections[s].collapsed
            /\ ~DfAt(layout', layout'.sections[s].df).collapsible =>
                    ~layout'.sections[s].collapsed]_vars

\* two clicks in a row on the head of a section that a refresh had
\* collapsed: the section is collapsed again, next to a plain section with
\* a label that is not
C35_Witness ==
    /\ hist.op = "click" /\ hist.n = 2
    /\ layout.sections[hist.sec].collapsed
    /\ layout.sections[hist.sec].head_collapsed
    /\ \E x \in 1..Len(layout.sections) :
        /\ layout.sections[x].head
        /\ ~DfAt(layout, layout.sections[x].df).collapsible
        /\ ~layout.sections[x].collapsed

---------------------------------------------------------------------------
(* SpecWalk: the forward tab pressed again and again in the field that     *)
(* has the focus, from a field of the form that is on screen.  A grid row  *)
(* that opens puts the focus into its first field on screen; the row       *)
(* layouts have such a field.                                              *)

\* the fields a key can be pressed in
Pressable(fields) ==
    {i \in 1..Len(fields) : is_visible(fields[i]) /\ fields[i].fieldtype # "Table"}

InitWalk ==
    /\ \E q \in TabLists, rq \in RowLists, rows \in 0..MaxRows :
        /\ \E i \in 1..Len(rq) : rq[i] # "hidden"
        /\ \E i \in 1..Len(q) :
            /\ q[i] \notin {"hidden", "Table"}
            /\ tab = [fields |-> [k \in 1..Len(q) |-> TabNode(Names[k], q[k], rows)],
                      rowfields |-> [k \in 1..Len(rq) |-> TabNode(RowNames[k], rq[k], 0)],
                      open |-> NoRow,
                      focus |-> [scope |-> "top", name |-> Names[i]],
                      call |-> [own |-> TRUE, fieldname |-> "", shift |-> FALSE]]
    /\ layout = NewLayout(<<>>, FALSE)
    /\ owner = "frm"
    /\ doc = NoDoc
    /\ hist = [op |-> "init"]

\* the forward tab pressed in the focused field of the form
WalkTop ==
    /\ tab.focus.scope = "top"
    /\ TabTop(tab.focus.name, FALSE)

\* the forward tab pressed in the focused field of the open grid row
WalkRow ==
    /\ tab.focus.scope = "row"
    /\ TabGrid(tab.focus.name, FALSE)

\* the form of the grid row that was opened takes the focus into its first
\* field on screen
RowShown ==
    /\ tab.focus.scope = "grid" /\ tab.open # NoRow
    /\ Pressable(tab.rowfields) # {}
    /\ tab' = [tab EXCEPT !.focus =
                [scope |-> "row",
                 name |-> tab.rowfields[CHOOSE i \in Pressable(tab.rowfields) :
                            \A x \in Pressable(tab.rowfields) : i <= x].fieldname]]
    /\ UNCHANGED <<layout, doc, owner, hist>>

NextWalk == WalkTop \/ WalkRow \/ RowShown

\* the key is pressed again as long as a field has the focus
SpecWalk == InitWalk /\ [][NextWalk]_vars /\ WF_vars(NextWalk)

---------------------------------------------------------------------------
(* Claims about the walk (SpecWalk).                                       *)

============================================================================
